---- MODULE Spec2Model ----
(***************************************************************************)
(* A model of the grid layer of vizarr (src/unnamed/part_000): the bounds  *)
(* geometry, the grid context, the resolution-level selector, the tile     *)
(* loader and the layer's shared state with its in-flight refresh batches. *)
(*                                                                         *)
(* Numbers.  World coordinates and pixel counts are integers.  Quotients   *)
(* the code computes in floating point (pixel sizes, render bounds, screen *)
(* sizes) are kept exact as rationals [n |-> numerator, d |-> denominator] *)
(* with d > 0, and floor/ceil are taken of the exact quotient.             *)
(***************************************************************************)
EXTENDS Integers, Sequences, FiniteSets, Bags, TLC

VARIABLES
    props,      \* this.props: [loaders, selections]
    viewport,   \* this.context.viewport
    state,      \* this.state: [gridData, fullWidth, fullHeight, resolutionLevel]
    batches,    \* bag of the refresh promises not yet settled
    last,       \* history: what the last step was
    probe       \* inputs and result of a pure function under test

vars == <<props, viewport, state, batches, last, probe>>

----------------------------------------------------------------------------
(* Bounds of the model *)

\* at most this many refresh batches are in flight at once
MaxInFlight == 2

\* defaultProps.spacer
Spacer == 5

\* MIN_PIXELS_PER_DATA_PIXEL = 0.5 = MinPixelsNum / MinPixelsDen
MinPixelsNum == 1
MinPixelsDen == 2

----------------------------------------------------------------------------
(* Arithmetic helpers *)

Min(a, b) == IF a < b THEN a ELSE b
Max(a, b) == IF a > b THEN a ELSE b

\* Math.floor(a / b) and Math.ceil(a / b) for integers a and b > 0
FloorDiv(a, b) == a \div b
CeilDiv(a, b) == -((-a) \div b)

Rat(n, d) == [n |-> n, d |-> d]
RatLeq(p, q) == p.n * q.d <= q.n * p.d

Dim(w, h) == [width |-> w, height |-> h]
Rect(l, r, t, b) == [left |-> l, right |-> r, top |-> t, bottom |-> b]

----------------------------------------------------------------------------
(* Geometry *)

clamp(value, min, max) ==
    IF value < min THEN min
    ELSE IF value > max THEN max
    ELSE value

\* variant: the cells abut, the spacer is left out of the pitch
getCellBoundsAbutting(loader, width, height, spacer) ==
    LET left == loader.col * width
        top  == loader.row * height
    IN  [left |-> left, top |-> top, right |-> left + width, bottom |-> top + height]

getCellBounds(loader, width, height, spacer) ==
    LET left == loader.col * (width + spacer)
        top  == loader.row * (height + spacer)
    IN  [left |-> left, top |-> top, right |-> left + width, bottom |-> top + height]

toDeckBounds(bounds) == <<bounds.left, bounds.bottom, bounds.right, bounds.top>>

\* variant: rectangles that only touch are taken to intersect
intersectBoundsInclusive(a, b) ==
    LET left   == Max(a.left, b.left)
        right  == Min(a.right, b.right)
        top    == Max(a.top, b.top)
        bottom == Min(a.bottom, b.bottom)
    IN  IF right < left \/ bottom < top
        THEN [ok |-> FALSE]
        ELSE [ok |-> TRUE, left |-> left, right |-> right, top |-> top, bottom |-> bottom]

\* null is [ok |-> FALSE]
intersectBounds(a, b) ==
    LET left   == Max(a.left, b.left)
        right  == Min(a.right, b.right)
        top    == Max(a.top, b.top)
        bottom == Min(a.bottom, b.bottom)
    IN  IF right <= left \/ bottom <= top
        THEN [ok |-> FALSE]
        ELSE [ok |-> TRUE, left |-> left, right |-> right, top |-> top, bottom |-> bottom]

\* The viewport's unprojected corners, mapped through the inverse model
\* matrix when there is one, are the viewport's datum here: v.bounds.
getViewportBounds(v) == v.bounds

\* source.shape at the "x" and "y" labels
getSourceDimensions(source) == [width |-> source.width, height |-> source.height]

----------------------------------------------------------------------------
(* Grid cells and the grid context *)

RECURSIVE CellsFrom(_, _, _, _)
\* loaders.filter(sources.length > 0).map(...): every cell, visible in full
CellsFrom(loaders, width, height, spacer) ==
    IF loaders = <<>> THEN <<>>
    ELSE LET loader == Head(loaders)
             rest   == CellsFrom(Tail(loaders), width, height, spacer)
             cellBounds == getCellBounds(loader, width, height, spacer)
         IN  IF Len(loader.sources) > 0
             THEN <<[loader |-> loader, cellBounds |-> cellBounds,
                     viewportBounds |-> cellBounds]>> \o rest
             ELSE rest

getAllGridCells(loaders, cellSize, spacer) ==
    IF cellSize.width = 0 \/ cellSize.height = 0 THEN <<>>
    ELSE CellsFrom(loaders, cellSize.width, cellSize.height, spacer)

RECURSIVE VisibleFrom(_, _, _, _, _)
RECURSIVE VisibleFromUnclipped(_, _, _, _, _)
\* variant: a visible cell keeps its full bounds as its visible bounds
VisibleFromUnclipped(loaders, viewportBounds, width, height, spacer) ==
    IF loaders = <<>> THEN <<>>
    ELSE LET loader == Head(loaders)
             rest   == VisibleFromUnclipped(Tail(loaders), viewportBounds, width, height, spacer)
             cellBounds   == getCellBounds(loader, width, height, spacer)
             intersection == intersectBounds(cellBounds, viewportBounds)
         IN  IF Len(loader.sources) = 0 THEN rest
             ELSE IF intersection.ok
             THEN <<[loader |-> loader, cellBounds |-> cellBounds,
                     viewportBounds |-> cellBounds]>> \o rest
             ELSE rest

\* the for loop of getVisibleGridCells
VisibleFrom(loaders, viewportBounds, width, height, spacer) ==
    IF loaders = <<>> THEN <<>>
    ELSE LET loader == Head(loaders)
             rest   == VisibleFrom(Tail(loaders), viewportBounds, width, height, spacer)
             cellBounds   == getCellBounds(loader, width, height, spacer)
             intersection == intersectBounds(cellBounds, viewportBounds)
         IN  IF Len(loader.sources) = 0 THEN rest
             ELSE IF intersection.ok
             THEN <<[loader |-> loader, cellBounds |-> cellBounds,
                     viewportBounds |-> Rect(intersection.left, intersection.right,
                                             intersection.top, intersection.bottom)]>> \o rest
             ELSE rest

getVisibleGridCells(loaders, v, cellSize, spacer) ==
    IF cellSize.width = 0 \/ cellSize.height = 0 THEN <<>>
    ELSE VisibleFrom(loaders, getViewportBounds(v), cellSize.width, cellSize.height, spacer)

\* loaders.find(loader => loader.sources.length > 0): its index, 0 when none
RECURSIVE FindWithSources(_, _)
FindWithSources(loaders, i) ==
    IF i > Len(loaders) THEN 0
    ELSE IF Len(loaders[i].sources) > 0 THEN i
    ELSE FindWithSources(loaders, i + 1)

NullContext == [ok |-> FALSE]

buildGridContext(p, v) ==
    LET loaders == p.loaders
        base    == FindWithSources(loaders, 1)
    IN  IF Len(loaders) = 0 THEN NullContext
        ELSE IF base = 0 THEN NullContext
        ELSE LET fullSize == getSourceDimensions(loaders[base].sources[1])
             IN  IF fullSize.width = 0 \/ fullSize.height = 0 THEN NullContext
                 ELSE [ok |-> TRUE, fullSize |-> fullSize, spacer |-> p.spacer,
                       visibleCells |->
                           IF v.present
                           THEN getVisibleGridCells(loaders, v, fullSize, p.spacer)
                           ELSE getAllGridCells(loaders, fullSize, p.spacer)]

----------------------------------------------------------------------------
(* The window of a pyramid level that a visible cell needs *)

\* window: undefined
NoWindow == [defined |-> FALSE]

\* clamp(viewportBounds.lo - cellBounds.lo, 0, full)
localCoord(viewportLo, cellLo, full) == clamp(viewportLo - cellLo, 0, full)

\* variant: the start is rounded up
windowStartCeiled(local, full, level) == Max(0, CeilDiv(local * level, full))

\* Math.max(0, Math.floor(local / pixelSize)), pixelSize = full / level
windowStart(local, full, level) == Max(0, FloorDiv(local * level, full))

\* Math.min(level, Math.max(start + 1, Math.ceil(local / pixelSize)))
windowEnd(start, local, full, level) ==
    Min(level, Max(start + 1, CeilDiv(local * level, full)))

RatRect(b) ==
    [left |-> Rat(b.left, 1), right |-> Rat(b.right, 1),
     top |-> Rat(b.top, 1), bottom |-> Rat(b.bottom, 1)]

\* variant: only the x range is compared with the level's extent
coversWholeInX(xStart, xEnd, yStart, yEnd, levelWidth, levelHeight) ==
    xStart = 0 /\ xEnd = levelWidth

\* coversWholeCell of computeWindowForSource
coversWhole(xStart, xEnd, yStart, yEnd, levelWidth, levelHeight) ==
    xStart = 0 /\ xEnd = levelWidth /\ yStart = 0 /\ yEnd = levelHeight

computeWindowForSource(viewportBounds, cellBounds, fullSize, levelSize) ==
    LET levelWidth  == levelSize.width
        levelHeight == levelSize.height
    IN  IF levelWidth = 0 \/ levelHeight = 0
        THEN [window |-> NoWindow, renderBounds |-> RatRect(cellBounds),
              coversWholeCell |-> TRUE]
        ELSE
        LET localLeft   == localCoord(viewportBounds.left, cellBounds.left, fullSize.width)
            localRight  == localCoord(viewportBounds.right, cellBounds.left, fullSize.width)
            localTop    == localCoord(viewportBounds.top, cellBounds.top, fullSize.height)
            localBottom == localCoord(viewportBounds.bottom, cellBounds.top, fullSize.height)
            xStart == windowStart(localLeft, fullSize.width, levelWidth)
            xEnd   == windowEnd(xStart, localRight, fullSize.width, levelWidth)
            yStart == windowStart(localTop, fullSize.height, levelHeight)
            yEnd   == windowEnd(yStart, localBottom, fullSize.height, levelHeight)
            coversWholeCell == coversWhole(xStart, xEnd, yStart, yEnd, levelWidth, levelHeight)
        IN  [window |->
                 IF coversWholeCell THEN NoWindow
                 ELSE [defined |-> TRUE, x |-> <<xStart, xEnd>>, y |-> <<yStart, yEnd>>],
             renderBounds |->
                 IF coversWholeCell THEN RatRect(cellBounds)
                 ELSE [left   |-> Rat(cellBounds.left * levelWidth + xStart * fullSize.width, levelWidth),
                       right  |-> Rat(cellBounds.left * levelWidth + xEnd * fullSize.width, levelWidth),
                       top    |-> Rat(cellBounds.top * levelHeight + yStart * fullSize.height, levelHeight),
                       bottom |-> Rat(cellBounds.top * levelHeight + yEnd * fullSize.height, levelHeight)],
             coversWholeCell |-> coversWholeCell]

----------------------------------------------------------------------------
(* The tile loader *)

\* source.getRaster({ selection, window }): the request one call carries
rasterRequest(selection, window) == [selection |-> selection, window |-> window]

\* The tile a successful getRaster returns: the window's extent, or the whole
\* level when it is given no window.
getRaster(source, request) ==
    IF request.window.defined
    THEN [width  |-> request.window.x[2] - request.window.x[1],
          height |-> request.window.y[2] - request.window.y[1]]
    ELSE [width |-> source.width, height |-> source.height]

\* variant: every cell is read at its base level
sourceIndexForBase(level, loader) == 0

\* Math.min(level, loader.sources.length - 1)
sourceIndexFor(level, loader) == Min(level, Len(loader.sources) - 1)

\* loadVisibleCell: the getRaster calls it makes and, when they all succeed,
\* the entry it returns
loadVisibleCell(cell, level, selections, context) ==
    LET loader      == cell.loader
        sourceIndex == sourceIndexFor(level, loader)
        source      == loader.sources[sourceIndex + 1]
        levelSize   == getSourceDimensions(source)
        w == computeWindowForSource(cell.viewportBounds, cell.cellBounds,
                                    context.fullSize, levelSize)
        requests == [i \in 1..Len(selections) |-> rasterRequest(selections[i], w.window)]
        tiles    == [i \in 1..Len(selections) |-> getRaster(source, requests[i])]
    IN  [requests |-> requests,
         entry |-> [row |-> loader.row, col |-> loader.col, sources |-> loader.sources,
                    bounds |-> toDeckBounds(w.renderBounds),
                    coversWholeCell |-> w.coversWholeCell,
                    sourceIndex |-> sourceIndex,
                    width  |-> IF Len(tiles) = 0 THEN 0 ELSE tiles[1].width,
                    height |-> IF Len(tiles) = 0 THEN 0 ELSE tiles[1].height]]

\* refreshGridData when every fetch succeeds: the entries, in cell order
refreshGridData(context, level, selections) ==
    IF Len(context.visibleCells) = 0 THEN <<>>
    ELSE [i \in 1..Len(context.visibleCells) |->
             loadVisibleCell(context.visibleCells[i], level, selections, context).entry]

\* variant: each entry is compared with itself, not with the first
validateAgainstSelf(data) ==
    \A i \in 1..Len(data) :
        data[i].width = data[i].width /\ data[i].height = data[i].height

\* validateWidthHeight: TRUE when the assertion passes for every entry
validateWidthHeight(data) ==
    \A i \in 1..Len(data) :
        data[i].width = data[1].width /\ data[i].height = data[1].height

----------------------------------------------------------------------------
(* The resolution-level selector *)

RECURSIVE MinSources(_)
\* loaders.reduce((min, loader) => Math.min(min, loader.sources.length)) of a
\* non-empty list
MinSources(loaders) ==
    IF Len(loaders) = 1 THEN Len(loaders[1].sources)
    ELSE Min(Len(loaders[1].sources), MinSources(Tail(loaders)))

getMaxValidLevel(loaders) ==
    IF Len(loaders) = 0 THEN 0
    ELSE Max(0, MinSources(loaders) - 1)

getInitialResolutionLevel(loaders) == getMaxValidLevel(loaders)

getLevelDimensions(loaders) ==
    LET first == FindWithSources(loaders, 1)
    IN  IF first = 0 THEN <<>>
        ELSE [i \in 1..Len(loaders[first].sources) |->
                 getSourceDimensions(loaders[first].sources[i])]

\* null is [ok |-> FALSE]; the projection of the viewport scales world
\* lengths by v.sx and v.sy (rationals)
getCellScreenSize(v, st) ==
    IF ~v.present THEN [ok |-> FALSE]
    ELSE IF st.fullWidth = 0 \/ st.fullHeight = 0 THEN [ok |-> FALSE]
    ELSE [ok |-> TRUE,
          width  |-> Rat(st.fullWidth * v.sx.n, v.sx.d),
          height |-> Rat(st.fullHeight * v.sy.n, v.sy.d)]

\* variant: the ratio is taken of the widths alone
ratioSufficesInWidth(screenSize, dim) ==
    screenSize.width.n * MinPixelsDen >= MinPixelsNum * dim.width * screenSize.width.d

\* ratio >= MIN_PIXELS_PER_DATA_PIXEL, ratio = min(screen.width / width,
\* screen.height / height), for width and height > 0
ratioSuffices(screenSize, dim) ==
    /\ screenSize.width.n * MinPixelsDen >= MinPixelsNum * dim.width * screenSize.width.d
    /\ screenSize.height.n * MinPixelsDen >= MinPixelsNum * dim.height * screenSize.height.d

RECURSIVE pickLoop(_, _, _)
RECURSIVE pickLoopFallingBackToBase(_, _, _)
RECURSIVE pickLoopCoarsest(_, _, _)
\* variant: the loop goes on to the last level that qualifies
pickLoopCoarsest(dimensions, screenSize, level) ==
    IF level >= Len(dimensions) THEN Len(dimensions) - 1
    ELSE LET dim == dimensions[level + 1]
             deeper == pickLoopCoarsest(dimensions, screenSize, level + 1)
         IN  IF dim.width = 0 \/ dim.height = 0 THEN deeper
             ELSE IF ratioSuffices(screenSize, dim)
                     /\ ~(level + 1 < Len(dimensions)
                            /\ ratioSuffices(screenSize, dimensions[deeper + 1]))
             THEN level
             ELSE deeper

\* variant: when no level qualifies the loop returns level 0
pickLoopFallingBackToBase(dimensions, screenSize, level) ==
    IF level >= Len(dimensions) THEN 0
    ELSE LET dim == dimensions[level + 1]
         IN  IF dim.width = 0 \/ dim.height = 0
             THEN pickLoopFallingBackToBase(dimensions, screenSize, level + 1)
             ELSE IF ratioSuffices(screenSize, dim) THEN level
             ELSE pickLoopFallingBackToBase(dimensions, screenSize, level + 1)

\* the for loop of #pickResolutionLevel, from `level` on
pickLoop(dimensions, screenSize, level) ==
    IF level >= Len(dimensions) THEN Len(dimensions) - 1
    ELSE LET dim == dimensions[level + 1]
         IN  IF dim.width = 0 \/ dim.height = 0
             THEN pickLoop(dimensions, screenSize, level + 1)
             ELSE IF ratioSuffices(screenSize, dim) THEN level
             ELSE pickLoop(dimensions, screenSize, level + 1)

\* variant: without a screen size the coarsest valid level is taken
pickLevelForGuessing(loaders, screenSize, currentLevel) ==
    LET maxLevel == getMaxValidLevel(loaders)
        all      == getLevelDimensions(loaders)
        dimensions == SubSeq(all, 1, Min(Len(all), maxLevel + 1))
    IN  IF maxLevel <= 0 THEN 0
        ELSE IF Len(dimensions) <= 1 THEN 0
        ELSE IF ~screenSize.ok THEN maxLevel
        ELSE pickLoop(dimensions, screenSize, 0)

\* #pickResolutionLevel once the screen size is known (or null)
pickLevelFor(loaders, screenSize, currentLevel) ==
    LET maxLevel == getMaxValidLevel(loaders)
        all      == getLevelDimensions(loaders)
        dimensions == SubSeq(all, 1, Min(Len(all), maxLevel + 1))
    IN  IF maxLevel <= 0 THEN 0
        ELSE IF Len(dimensions) <= 1 THEN 0
        ELSE IF ~screenSize.ok THEN currentLevel
        ELSE pickLoop(dimensions, screenSize, 0)

pickResolutionLevel(loaders, v, st) ==
    pickLevelFor(loaders, getCellScreenSize(v, st), st.resolutionLevel)

----------------------------------------------------------------------------
(* The inputs the model draws from *)

Loader(row, col, sources) == [row |-> row, col |-> col, sources |-> sources]

\* two cells with the same two-level pyramid
UniformLoaders ==
    <<Loader(0, 0, <<Dim(4, 4), Dim(2, 2)>>), Loader(0, 1, <<Dim(4, 4), Dim(2, 2)>>)>>

\* two cells of different pyramid depth and base size
MixedLoaders ==
    <<Loader(0, 0, <<Dim(4, 4), Dim(2, 2)>>), Loader(0, 1, <<Dim(2, 2)>>)>>

\* a cell without sources, then one cell in each of two rows
HolesLoaders ==
    <<Loader(0, 0, <<>>), Loader(0, 1, <<Dim(4, 4), Dim(2, 2)>>), Loader(1, 0, <<Dim(4, 4)>>)>>

\* cells that all lack sources
EmptyLoaders == <<Loader(0, 0, <<>>), Loader(0, 1, <<>>)>>

\* a base image of zero width
FlatLoaders ==
    <<Loader(0, 0, <<Dim(0, 4), Dim(0, 2)>>), Loader(0, 1, <<Dim(4, 4), Dim(2, 2)>>)>>

\* the loaders the layer is driven with
LoaderSets == {UniformLoaders, MixedLoaders, <<>>}

\* three cells in a row, the middle one a smaller image
TripleLoaders ==
    <<Loader(0, 0, <<Dim(4, 4), Dim(2, 2)>>), Loader(0, 1, <<Dim(2, 2)>>),
      Loader(0, 2, <<Dim(4, 4), Dim(2, 2)>>)>>

\* loaders that give no context, and one that gives one
DegenerateLoaderSets == {UniformLoaders, EmptyLoaders, FlatLoaders, <<>>}

\* props.selections with n channel selections
SelectionsOf(n) == [i \in 1..n |-> <<i - 1>>]
\* the layer is driven with one channel selection, replaced by an equal one
\* when the selections change
SelectionSets == {SelectionsOf(1)}

View(bounds, sx, sy) == [present |-> TRUE, bounds |-> bounds, sx |-> sx, sy |-> sy]
NoViewport == [present |-> FALSE, bounds |-> Rect(0, 0, 0, 0), sx |-> Rat(0, 1), sy |-> Rat(0, 1)]

\* the whole grid at one screen pixel per world unit
ViewAll  == View(Rect(-1, 14, -1, 5), Rat(1, 1), Rat(1, 1))
\* the whole grid from far away: a quarter screen pixel per world unit
ViewFar  == View(Rect(-20, 40, -20, 40), Rat(1, 4), Rat(1, 4))
\* the inside of the first cell, zoomed in
ViewPart == View(Rect(1, 3, 1, 3), Rat(2, 1), Rat(2, 1))

Viewports == {NoViewport, ViewAll, ViewFar, ViewPart}

\* two cells of a row in full and the left half of the third
ViewCut == View(Rect(-1, 20, -1, 5), Rat(1, 1), Rat(1, 1))

----------------------------------------------------------------------------
(* The layer: its state and its refresh batches *)

NoProbe == [kind |-> "none"]

\* a refresh issued now is the newest; those in flight no longer are
Supersede(bs) ==
    LET old(b) == [b EXCEPT !.newest = FALSE]
        S == {old(b) : b \in BagToSet(bs)}
    IN  [b \in S |-> CopiesIn(b, bs) + CopiesIn([b EXCEPT !.newest = TRUE], bs)]

\* variant: the grid is blanked while the refresh is in flight
refreshAndSetStateBlanking(st, bs, p, level, v, context) ==
    LET resolvedContext == IF context.ok THEN context ELSE buildGridContext(p, v)
    IN  IF ~resolvedContext.ok
        THEN [state |-> [st EXCEPT !.gridData = <<>>], batches |-> bs]
        ELSE [state |-> [st EXCEPT !.gridData = <<>>],
              batches |-> Supersede(bs) (+)
                          SetToBag({[level |-> level, context |-> resolvedContext,
                                     selections |-> p.selections, newest |-> TRUE]})]

\* variant: without a context the grid is left as it is
refreshAndSetStateKeeping(st, bs, p, level, v, context) ==
    LET resolvedContext == IF context.ok THEN context ELSE buildGridContext(p, v)
    IN  IF ~resolvedContext.ok
        THEN [state |-> st, batches |-> bs]
        ELSE [state |-> st,
              batches |-> Supersede(bs) (+)
                          SetToBag({[level |-> level, context |-> resolvedContext,
                                     selections |-> p.selections, newest |-> TRUE]})]

\* #refreshAndSetState up to the call of refreshGridData: the state it leaves
\* and the batches then in flight
refreshAndSetState(st, bs, p, level, v, context) ==
    LET resolvedContext == IF context.ok THEN context ELSE buildGridContext(p, v)
    IN  IF ~resolvedContext.ok
        THEN [state |-> [st EXCEPT !.gridData = <<>>], batches |-> bs]
        ELSE [state |-> st,
              batches |-> Supersede(bs) (+)
                          SetToBag({[level |-> level, context |-> resolvedContext,
                                     selections |-> p.selections, newest |-> TRUE]})]

\* variant: the result is applied whatever the active level is
thenCallbackUngated(st, level, context, gridData) ==
    IF Len(gridData) > 0
            /\ (\A i \in 1..Len(gridData) : gridData[i].coversWholeCell)
            /\ ~validateWidthHeight(gridData)
    THEN [st EXCEPT !.gridData = <<>>]
    ELSE [st EXCEPT !.gridData = gridData,
                    !.fullWidth = context.fullSize.width,
                    !.fullHeight = context.fullSize.height]

\* variant: a result is committed only while the grid is empty
thenCallbackFirstWins(st, level, context, gridData) ==
    IF st.resolutionLevel # level \/ st.gridData # <<>> THEN st
    ELSE IF Len(gridData) > 0
            /\ (\A i \in 1..Len(gridData) : gridData[i].coversWholeCell)
            /\ ~validateWidthHeight(gridData)
    THEN [st EXCEPT !.gridData = <<>>]
    ELSE [st EXCEPT !.gridData = gridData,
                    !.fullWidth = context.fullSize.width,
                    !.fullHeight = context.fullSize.height]

\* the .then callback of #refreshAndSetState; when validateWidthHeight throws,
\* the .catch callback runs after it
thenCallback(st, level, context, gridData) ==
    IF st.resolutionLevel # level THEN st
    ELSE IF Len(gridData) > 0
            /\ (\A i \in 1..Len(gridData) : gridData[i].coversWholeCell)
            /\ ~validateWidthHeight(gridData)
    THEN [st EXCEPT !.gridData = <<>>]
    ELSE [st EXCEPT !.gridData = gridData,
                    !.fullWidth = context.fullSize.width,
                    !.fullHeight = context.fullSize.height]

\* variant: a failure blanks the grid whatever the active level is
catchCallbackUngated(st, level) == [st EXCEPT !.gridData = <<>>]

\* variant: a failure leaves the grid as it is
catchCallbackKeeping(st, level) == st

\* the .catch callback of #refreshAndSetState
catchCallback(st, level) ==
    IF st.resolutionLevel # level THEN st
    ELSE [st EXCEPT !.gridData = <<>>]

\* initializeState
initializeState(p, v) ==
    LET initialLevel == getInitialResolutionLevel(p.loaders)
        context == buildGridContext(p, v)
        st == [gridData |-> <<>>,
               fullWidth  |-> IF context.ok THEN context.fullSize.width ELSE 0,
               fullHeight |-> IF context.ok THEN context.fullSize.height ELSE 0,
               resolutionLevel |-> initialLevel]
    IN  IF context.ok
        THEN refreshAndSetState(st, EmptyBag, p, initialLevel, v, context)
        ELSE [state |-> st, batches |-> EmptyBag]

\* variant: a loader change clears the grid at once
updateStateClearing(st, bs, p, v, loaderChanged, selectionChanged, viewportChanged) ==
    LET context == buildGridContext(p, v)
        st1 == IF loaderChanged
               THEN [st EXCEPT !.gridData = <<>>,
                               !.fullWidth  = IF context.ok THEN context.fullSize.width ELSE 0,
                               !.fullHeight = IF context.ok THEN context.fullSize.height ELSE 0]
               ELSE st
    IN  IF loaderChanged \/ selectionChanged
        THEN refreshAndSetState(st1, bs, p, st1.resolutionLevel, v, context)
        ELSE IF viewportChanged
        THEN LET level == pickResolutionLevel(p.loaders, v, st1)
                 st2 == IF level # st1.resolutionLevel
                        THEN [st1 EXCEPT !.resolutionLevel = level]
                        ELSE st1
             IN  refreshAndSetState(st2, bs, p, level, v, context)
        ELSE [state |-> st1, batches |-> bs]

\* updateState
updateState(st, bs, p, v, loaderChanged, selectionChanged, viewportChanged) ==
    LET context == buildGridContext(p, v)
        st1 == IF loaderChanged
               THEN [st EXCEPT !.fullWidth  = IF context.ok THEN context.fullSize.width ELSE 0,
                               !.fullHeight = IF context.ok THEN context.fullSize.height ELSE 0]
               ELSE st
    IN  IF loaderChanged \/ selectionChanged
        THEN refreshAndSetState(st1, bs, p, st1.resolutionLevel, v, context)
        ELSE IF viewportChanged
        THEN LET level == pickResolutionLevel(p.loaders, v, st1)
                 st2 == IF level # st1.resolutionLevel
                        THEN [st1 EXCEPT !.resolutionLevel = level]
                        ELSE st1
             IN  refreshAndSetState(st2, bs, p, level, v, context)
        ELSE [state |-> st1, batches |-> bs]

\* the batches in flight once b has settled
Settled(bs, b) == bs (-) SetToBag({b})

Props(loaders, selections) ==
    [loaders |-> loaders, selections |-> selections, spacer |-> Spacer]

\* history: the kind of the last step; for a settlement, whether the batch's
\* level was no longer the active one, whether no later refresh had been
\* issued, how its fetches ended and whether only some failed; whether
\* gridData held entries before the step; and whether the active level has
\* moved since gridData was last written
Last(kind, stale, newest, outcome, partial, had, moved) ==
    [kind |-> kind, stale |-> stale, newest |-> newest, outcome |-> outcome,
     partial |-> partial, had |-> had, levelMoved |-> moved]

\* initializeState with the loaders and the viewport drawn from the choices
InitFrom(LoaderChoices, ViewChoices) ==
    \E loaders \in LoaderChoices, selections \in SelectionSets, v \in ViewChoices :
        LET r == initializeState(Props(loaders, selections), v)
        IN  /\ props = Props(loaders, selections)
            /\ viewport = v
            /\ state = r.state
            /\ batches = r.batches
            /\ last = Last("init", FALSE, TRUE, "none", FALSE, FALSE, FALSE)

Init == InitFrom(LoaderSets, Viewports) /\ probe = NoProbe

\* deck.gl hands the layer new props and a new viewport with their change
\* flags (shouldUpdateState lets the update through when one is set).  A new
\* selections array or viewport object is flagged also when its value is the
\* same; propsChanged names props.loaders only when the loaders changed, and
\* may name another prop even then.
UpdateWith(LoaderChoices, ViewChoices, loaderChanged, selectionChanged, viewportChanged) ==
    \E loaders \in LoaderChoices, selections \in SelectionSets, v \in ViewChoices :
        LET p == Props(loaders, selections)
            r == updateState(state, batches, p, v,
                             loaderChanged, selectionChanged, viewportChanged)
        IN  /\ selections # props.selections => selectionChanged
            /\ v # viewport => viewportChanged
            /\ loaderChanged => loaders # props.loaders
            /\ loaderChanged \/ selectionChanged \/ viewportChanged
            /\ BagCardinality(r.batches) <= MaxInFlight
            /\ props' = p
            /\ viewport' = v
            /\ state' = r.state
            /\ batches' = r.batches
            /\ last' = Last("update", FALSE, TRUE, "none", FALSE, state.gridData # <<>>,
                            IF ~buildGridContext(p, v).ok THEN FALSE
                            ELSE last.levelMoved
                                 \/ r.state.resolutionLevel # state.resolutionLevel)

UpdateFrom(LoaderChoices, ViewChoices) ==
    \E loaderChanged \in BOOLEAN, selectionChanged \in BOOLEAN, viewportChanged \in BOOLEAN :
        UpdateWith(LoaderChoices, ViewChoices, loaderChanged, selectionChanged, viewportChanged)

Update == UpdateFrom(LoaderSets, Viewports) /\ UNCHANGED probe

\* the promise of batch b resolves: every fetch of it succeeded
ResolveBatch ==
    \E b \in BagToSet(batches) :
        LET gridData == refreshGridData(b.context, b.level, b.selections)
            st == thenCallback(state, b.level, b.context, gridData)
            invalid == /\ Len(gridData) > 0
                       /\ \A k \in 1..Len(gridData) : gridData[k].coversWholeCell
                       /\ ~validateWidthHeight(gridData)
        IN  /\ state' = st
            /\ batches' = Settled(batches, b)
            /\ last' = Last("settle", b.level # state.resolutionLevel, b.newest,
                            IF invalid THEN "invalid" ELSE "resolved", FALSE,
                            state.gridData # <<>>,
                            IF state.resolutionLevel = b.level THEN FALSE
                            ELSE last.levelMoved)
            /\ UNCHANGED <<props, viewport>>

Resolve == ResolveBatch /\ UNCHANGED probe

\* the promise of batch b rejects: the fetches of the cells in `failed` failed
RejectBatch ==
    \E b \in BagToSet(batches) :
        LET n == Len(b.context.visibleCells)
        IN  /\ Len(b.selections) > 0
            /\ \E failed \in SUBSET (1..n) :
                /\ failed # {}
                /\ state' = catchCallback(state, b.level)
                /\ batches' = Settled(batches, b)
                /\ last' = Last("settle", b.level # state.resolutionLevel, b.newest, "rejected",
                                failed # 1..n, state.gridData # <<>>,
                                IF state.resolutionLevel = b.level THEN FALSE
                                ELSE last.levelMoved)
            /\ UNCHANGED <<props, viewport>>

Reject == RejectBatch /\ UNCHANGED probe

Next == Update \/ Resolve \/ Reject

Spec == Init /\ [][Next]_vars

\* the layer driven with loaders that give no context
DegenerateInit == InitFrom(DegenerateLoaderSets, Viewports) /\ probe = NoProbe

DegenerateUpdate == UpdateFrom(DegenerateLoaderSets, Viewports) /\ UNCHANGED probe

DegenerateNext == DegenerateUpdate \/ Resolve \/ Reject

SpecDegenerate == DegenerateInit /\ [][DegenerateNext]_vars

\* the layer driven over a row of three cells that the viewport may cut
CutInit == InitFrom({TripleLoaders, UniformLoaders}, {ViewAll, ViewCut}) /\ probe = NoProbe

CutUpdate == UpdateFrom({TripleLoaders, UniformLoaders}, {ViewAll, ViewCut}) /\ UNCHANGED probe

CutNext == CutUpdate \/ Resolve \/ Reject

SpecCut == CutInit /\ [][CutNext]_vars

\* history: how gridData stands to the last batch that settled at the active
\* level: "none" when no such batch has settled and gridData is as initialized,
\* "current" when gridData is that batch's outcome, "blanked" when a refresh
\* without a context has emptied gridData since, "differs" otherwise
Applied(tag) == [kind |-> "applied", applied |-> tag]

AppliedBySettlement(st, applied, b, outcome, st2) ==
    IF b.level = st.resolutionLevel
    THEN IF st2.gridData = outcome THEN "current" ELSE "differs"
    ELSE IF st2.gridData = st.gridData THEN applied ELSE "differs"

AppliedByUpdate(st, applied, context, st2) ==
    IF st2.gridData = st.gridData THEN applied
    ELSE IF ~context.ok /\ st2.gridData = <<>> THEN "blanked"
    ELSE "differs"

\* the history after this step
AppliedKept ==
    probe' = Applied(
        IF last'.kind = "update"
        THEN AppliedByUpdate(state, probe.applied,
                             buildGridContext(props', viewport'), state')
        ELSE LET b == CHOOSE c \in BagToSet(batches) : batches' = Settled(batches, c)
             IN  AppliedBySettlement(state, probe.applied, b,
                     IF last'.outcome = "resolved"
                     THEN refreshGridData(b.context, b.level, b.selections)
                     ELSE <<>>,
                     state'))

\* the layer with that history kept
AppliedInit == InitFrom(LoaderSets, Viewports) /\ probe = Applied("none")

AppliedUpdate == UpdateFrom(LoaderSets, Viewports) /\ AppliedKept

AppliedResolve == ResolveBatch /\ AppliedKept

AppliedReject == RejectBatch /\ AppliedKept

AppliedNext == AppliedUpdate \/ AppliedResolve \/ AppliedReject

SpecApplied == AppliedInit /\ [][AppliedNext]_vars

----------------------------------------------------------------------------
(* Claims about the layer's shared state *)

\* this step is the settlement of batch b
SettlementOf(b) == last'.kind = "settle" /\ batches' = Settled(batches, b)

\* C1: a batch whose level is not the active level when it settles, resolved
\* or rejected, leaves gridData, fullWidth, fullHeight and resolutionLevel
\* unchanged.
C1_StalenessGate ==
    [][\A b \in BagToSet(batches) :
          (SettlementOf(b) /\ b.level # state.resolutionLevel)
          => /\ state'.gridData = state.gridData
             /\ state'.fullWidth = state.fullWidth
             /\ state'.fullHeight = state.fullHeight
             /\ state'.resolutionLevel = state.resolutionLevel]_vars

\* a stale batch has just resolved and the grid on screen is still there
C1_Witness ==
    /\ last.kind = "settle" /\ last.stale /\ last.outcome = "resolved"
    /\ state.gridData # <<>>

\* C2 as stated: once a newer batch has been issued, an older batch that
\* completes later never replaces gridData.
C2_OnlyNewestWrites ==
    [][\A b \in BagToSet(batches) :
          (SettlementOf(b) /\ ~b.newest) => state'.gridData = state.gridData]_vars

\* C2 amended: a settlement changes gridData only when the batch's level is
\* the active level, and then to that batch's own outcome (its entries, or
\* nothing), whether or not a newer batch has been issued.
C2_WrittenByActiveLevel ==
    [][\A b \in BagToSet(batches) :
          (SettlementOf(b) /\ state'.gridData # state.gridData)
          => /\ b.level = state.resolutionLevel
             /\ state'.gridData \in
                    {<<>>, refreshGridData(b.context, b.level, b.selections)}]_vars

\* an older batch of the active level has just committed its entries
C2_Witness ==
    /\ last.kind = "settle" /\ ~last.newest /\ ~last.stale
    /\ last.outcome = "resolved" /\ state.gridData # <<>>

\* C3: a batch of the active level that rejects, some or all of its fetches
\* having failed, empties gridData, and nothing but an update issues a batch.
C3_FailureBlanks ==
    [][/\ \A b \in BagToSet(batches) :
            (SettlementOf(b) /\ last'.outcome = "rejected"
                /\ b.level = state.resolutionLevel)
            => state'.gridData = <<>>
       /\ last'.kind # "update" => BagCardinality(batches') <= BagCardinality(batches)]_vars

\* a batch of the active level has just failed in part over a painted grid
C3_Witness ==
    /\ last.kind = "settle" /\ last.outcome = "rejected" /\ ~last.stale
    /\ last.partial /\ last.had /\ state.gridData = <<>>

\* C4 as stated: a refresh that fails leaves gridData in place as long as the
\* active level has not changed since gridData was written.
C4_FailureKeepsGrid ==
    [][(last'.kind = "settle" /\ last'.outcome = "rejected" /\ ~last.levelMoved)
       => state'.gridData = state.gridData]_vars

\* C4 amended: issuing a refresh leaves gridData in place; a refresh that fails
\* leaves it in place exactly when its level is no longer the active level,
\* and empties it otherwise.
C4_FailureKeepsGridIfStale ==
    [][/\ BagCardinality(batches') > BagCardinality(batches)
            => state'.gridData = state.gridData
       /\ \A b \in BagToSet(batches) :
            (SettlementOf(b) /\ last'.outcome = "rejected")
            => state'.gridData =
                   IF b.level = state.resolutionLevel THEN <<>> ELSE state.gridData]_vars

\* a stale batch has just failed and the painted grid is still there
C4_Witness ==
    /\ last.kind = "settle" /\ last.outcome = "rejected" /\ last.stale
    /\ state.gridData # <<>> /\ batches # EmptyBag

\* the entries of batch b all cover their cell and two differ in size
Mismatched(b) ==
    LET data == refreshGridData(b.context, b.level, b.selections)
    IN  /\ \A i \in 1..Len(data) : data[i].coversWholeCell
        /\ \E i, j \in 1..Len(data) :
               data[i].width # data[j].width \/ data[i].height # data[j].height

\* C5: a batch of the active level that resolves with whole-cell entries of
\* different sizes is not committed: gridData is emptied as for a failure and
\* fullWidth, fullHeight and resolutionLevel stay.
C5_MismatchNotCommitted ==
    [][\A b \in BagToSet(batches) :
          (SettlementOf(b) /\ last'.outcome # "rejected"
              /\ b.level = state.resolutionLevel /\ Mismatched(b))
          => /\ state'.gridData = <<>>
             /\ state'.fullWidth = state.fullWidth
             /\ state'.fullHeight = state.fullHeight
             /\ state'.resolutionLevel = state.resolutionLevel]_vars

\* a mismatched batch of the active level has just resolved over a painted grid
C5_Witness ==
    /\ last.kind = "settle" /\ last.outcome = "invalid" /\ ~last.stale /\ last.had

\* C6 as stated: the active level is at least 0 and at most sources.length - 1
\* of every cell of the current loaders that has a source.
C6_LevelWithinPyramids ==
    /\ state.resolutionLevel >= 0
    /\ \A i \in 1..Len(props.loaders) :
           Len(props.loaders[i].sources) > 0
           => state.resolutionLevel <= Len(props.loaders[i].sources) - 1

\* the loader list is empty, no loader has a source, or the first source of
\* the first loader that has one is of zero width or height
Degenerate(loaders) ==
    \/ loaders = <<>>
    \/ \A i \in 1..Len(loaders) : loaders[i].sources = <<>>
    \/ \E i \in 1..Len(loaders) :
          /\ loaders[i].sources # <<>>
          /\ \A j \in 1..(i - 1) : loaders[j].sources = <<>>
          /\ loaders[i].sources[1].width = 0 \/ loaders[i].sources[1].height = 0

C16_LastApplicableWins ==
    (batches = EmptyBag /\ probe.applied # "none") => probe.applied = "current"

\* C16 amended: once every batch has settled, gridData is the outcome of the
\* last batch that settled at the level then active, unless a refresh without
\* a context came after it, which leaves gridData empty.
C16_LastApplicableWinsUnlessBlanked ==
    (batches = EmptyBag /\ probe.applied # "none")
    => \/ probe.applied = "current"
       \/ probe.applied = "blanked" /\ state.gridData = <<>>

\* the last batch to settle was issued before another one that has settled
\* too, and its entries are the grid
C16_Witness ==
    /\ batches = EmptyBag /\ last.kind = "settle" /\ ~last.newest /\ ~last.stale
    /\ probe.applied = "current" /\ last.outcome = "resolved" /\ state.gridData # <<>>

\* C17 as stated: an update step (loader, selection or viewport change, refresh
\* without a context) leaves gridData, fullWidth, fullHeight and
\* resolutionLevel unchanged; they change in batch completions only.
C17_UpdatesLeaveState ==
    [][last'.kind = "update" => state' = state]_vars

\* C17 amended: entries are put into gridData in batch completions only; an
\* update step changes gridData only to empty it when there is no context,
\* fullWidth and fullHeight only to the base size of the new loaders (0 without
\* a context), and resolutionLevel only to the selector's pick.
C17_UpdatesWriteNoEntries ==
    [][/\ (state'.gridData # state.gridData /\ state'.gridData # <<>>)
            => last'.kind = "settle"
       /\ last'.kind = "update" =>
            LET context == buildGridContext(props', viewport')
                size == IF context.ok THEN context.fullSize ELSE Dim(0, 0)
            IN  /\ state'.gridData # state.gridData => ~context.ok
                /\ \/ state'.fullWidth = state.fullWidth
                         /\ state'.fullHeight = state.fullHeight
                   \/ state'.fullWidth = size.width /\ state'.fullHeight = size.height
                             /\ props'.loaders # props.loaders
                /\ state'.resolutionLevel \in
                       {state.resolutionLevel,
                        pickResolutionLevel(props'.loaders, viewport', state)}]_vars

\* a viewport change has moved the active level under a painted grid
C17_Witness ==
    /\ last.kind = "update" /\ last.levelMoved /\ last.had
    /\ state.gridData # <<>> /\ props.loaders = UniformLoaders

\* C18 as stated: the entries of gridData that cover their whole cell all have
\* the same tile width and height, also when other entries are window-limited.
C18_WholeCellEntriesAgree ==
    \A i, j \in 1..Len(state.gridData) :
        (state.gridData[i].coversWholeCell /\ state.gridData[j].coversWholeCell)
        => /\ state.gridData[i].width = state.gridData[j].width
           /\ state.gridData[i].height = state.gridData[j].height

\* C19 as stated: every entry of gridData was fetched for the active level.
C19_EntriesOfActiveLevel ==
    \A i \in 1..Len(state.gridData) :
        state.gridData[i].sourceIndex =
            Min(state.resolutionLevel, Len(state.gridData[i].sources) - 1)

\* C19 amended: the entries of gridData were all fetched for one level, and
\* for the active level unless the active level has moved since they were
\* committed, when they stay in place.
C19_EntriesOfCommittedLevel ==
    /\ \E level \in {0, 1} :
          \A i \in 1..Len(state.gridData) :
              state.gridData[i].sourceIndex =
                  Min(level, Len(state.gridData[i].sources) - 1)
    /\ ~last.levelMoved => C19_EntriesOfActiveLevel

\* after the level moved from 1 to 0 a batch of level 0 has replaced the
\* entries of level 1
C19_Witness ==
    /\ last.kind = "settle" /\ ~last.stale /\ last.outcome = "resolved" /\ last.had
    /\ props.loaders = UniformLoaders /\ state.resolutionLevel = 0
    /\ state.gridData # <<>> /\ state.gridData[1].sourceIndex = 0

----------------------------------------------------------------------------
(* The resolution-level selector as a function of its inputs *)

\* the layer at rest, for the specifications that probe a pure function
Idle ==
    LET p == Props(<<>>, <<>>)
    IN  /\ props = p
        /\ viewport = NoViewport
        /\ state = initializeState(p, NoViewport).state
        /\ batches = EmptyBag
        /\ last = Last("init", FALSE, TRUE, "none", FALSE, FALSE, FALSE)

\* a 2 x 2 plate of three-level pyramids of 1000, 500 and 250 pixels
PlatePyramid == <<Dim(1000, 1000), Dim(500, 500), Dim(250, 250)>>
PlateLoaders ==
    <<Loader(0, 0, PlatePyramid), Loader(0, 1, PlatePyramid),
      Loader(1, 0, PlatePyramid), Loader(1, 1, PlatePyramid)>>

\* one cell whose levels are not square
WideLoaders == <<Loader(0, 0, <<Dim(8, 4), Dim(4, 4), Dim(2, 1)>>)>>

\* a three-level and a two-level pyramid
DeepAndShallowLoaders ==
    <<Loader(0, 0, PlatePyramid), Loader(0, 1, <<Dim(1000, 1000), Dim(500, 500)>>)>>

\* the loaders the selector is probed with; every level has a positive extent
PickLoaderSets ==
    {PlateLoaders, WideLoaders, DeepAndShallowLoaders, UniformLoaders, MixedLoaders, <<>>}

\* the projected width and height of a cell, in screen pixels
ScreenLengths == {0, 1, 2, 4, 125, 300, 500}
ScreenSizes ==
    {[ok |-> TRUE, width |-> Rat(w, 1), height |-> Rat(h, 1)] :
        w \in ScreenLengths, h \in ScreenLengths}

PickInit ==
    /\ Idle
    /\ \E loaders \in PickLoaderSets, s1 \in ScreenSizes, s2 \in ScreenSizes :
          probe = [kind |-> "pick", loaders |-> loaders, screen1 |-> s1, screen2 |-> s2,
                   level1 |-> 0, level2 |-> 0]

\* #pickResolutionLevel for both screen sizes
PickLevels ==
    /\ probe.kind = "pick"
    /\ probe' = [probe EXCEPT !.kind = "picked",
                     !.level1 = pickLevelFor(probe.loaders, probe.screen1, 0),
                     !.level2 = pickLevelFor(probe.loaders, probe.screen2, 0)]
    /\ UNCHANGED <<props, viewport, state, batches, last>>

SpecPick == PickInit /\ [][PickLevels]_vars

\* min(sources.length) - 1 over the cells; -1 when there is no cell
ClaimedMaxLevel(loaders) ==
    IF loaders = <<>> THEN -1
    ELSE LET depths == {Len(loaders[i].sources) : i \in 1..Len(loaders)}
         IN  (CHOOSE d \in depths : \A e \in depths : d <= e) - 1

\* the levels 0..maxLevel of the first cell that give at least half a screen
\* pixel per source pixel on both axes
QualifyingLevels(loaders, screen) ==
    {l \in 0..ClaimedMaxLevel(loaders) :
        LET dim == loaders[1].sources[l + 1]
        IN  /\ 2 * screen.width.n >= dim.width * screen.width.d
            /\ 2 * screen.height.n >= dim.height * screen.height.d}

ClaimedLevel(loaders, screen) ==
    LET maxLevel == ClaimedMaxLevel(loaders)
        Q == QualifyingLevels(loaders, screen)
    IN  IF maxLevel <= 0 THEN 0
        ELSE IF Q = {} THEN maxLevel
        ELSE CHOOSE l \in Q : \A m \in Q : l <= m

\* C7: the selector returns 0 when maxLevel <= 0, else the smallest level of
\* 0..maxLevel whose ratio is at least 0.5, else maxLevel.
C7_SmallestQualifyingLevel ==
    probe.kind = "picked" => probe.level1 = ClaimedLevel(probe.loaders, probe.screen1)

\* the plate at a screen size of 300: ratio 0.3 at level 0, 0.6 at level 1
C7_Witness ==
    /\ probe.kind = "picked" /\ probe.loaders = PlateLoaders
    /\ probe.screen1.width = Rat(300, 1) /\ probe.screen1.height = Rat(300, 1)
    /\ probe.level1 = 1

\* C8: a screen size at least as large on both axes never picks a coarser level.
C8_MonotonicInZoom ==
    (probe.kind = "picked"
        /\ RatLeq(probe.screen1.width, probe.screen2.width)
        /\ RatLeq(probe.screen1.height, probe.screen2.height))
    => probe.level2 <= probe.level1

\* zooming in has picked a strictly finer level
C8_Witness ==
    /\ probe.kind = "picked"
    /\ RatLeq(probe.screen1.width, probe.screen2.width)
    /\ RatLeq(probe.screen1.height, probe.screen2.height)
    /\ probe.level2 < probe.level1

\* C20 as stated: when some level of 0..maxLevel gives at least 0.5 screen
\* pixels per source pixel, the selector returns the highest such level.
C20_CoarsestQualifyingLevel ==
    LET Q == QualifyingLevels(probe.loaders, probe.screen2)
    IN  (probe.kind = "picked" /\ Q # {}) => \A l \in Q : l <= probe.level2

\* C20 amended: when some level of 0..maxLevel gives at least 0.5 screen
\* pixels per source pixel, the selector returns the lowest such level, the
\* finest one.
C20_FinestQualifyingLevel ==
    LET Q == QualifyingLevels(probe.loaders, probe.screen2)
    IN  (probe.kind = "picked" /\ Q # {})
        => probe.level2 \in Q /\ \A l \in Q : probe.level2 <= l

\* the plate at a screen size of 500: every level qualifies and level 0 is
\* returned
C20_Witness ==
    /\ probe.kind = "picked" /\ probe.loaders = PlateLoaders
    /\ probe.screen2.width = Rat(500, 1) /\ probe.screen2.height = Rat(500, 1)
    /\ QualifyingLevels(probe.loaders, probe.screen2) = {0, 1, 2}
    /\ probe.level2 = 0

----------------------------------------------------------------------------
(* The window computation and the cell load as functions of their inputs *)

\* offsets of a viewport edge from the cell's left (top) edge, for a cell of
\* 4 x 4 world units: before, on, inside, on the far edge and beyond it
EdgeOffsetsX == {-1, 0, 1, 2, 3, 4, 5}
EdgeOffsetsY == {-1, 0, 2, 4, 5}

\* extents of the pyramid level the cell is read at; 0 is an empty level
LevelExtents == {0, 1, 2, 3, 4}

WindowInit ==
    /\ Idle
    /\ \E col \in {0, 1}, l \in EdgeOffsetsX, r \in EdgeOffsetsX,
          t \in EdgeOffsetsY, b \in EdgeOffsetsY,
          lw \in LevelExtents, lh \in LevelExtents :
          LET fullSize == Dim(4, 4)
              loader == Loader(0, col, <<Dim(lw, lh)>>)
              cellBounds == getCellBounds(loader, fullSize.width, fullSize.height, Spacer)
          IN  /\ l <= r /\ t <= b
              /\ probe = [kind |-> "cell",
                          cell |-> [loader |-> loader, cellBounds |-> cellBounds,
                                    viewportBounds |->
                                        Rect(cellBounds.left + l, cellBounds.left + r,
                                             cellBounds.top + t, cellBounds.top + b)],
                          fullSize |-> fullSize,
                          levelSize |-> Dim(lw, lh),
                          requests |-> <<>>,
                          window |-> NoWindow,
                          entry |-> [coversWholeCell |-> FALSE]]

\* loadVisibleCell of the probed cell at level 0 with two channel selections
LoadCell ==
    /\ probe.kind = "cell"
    /\ LET context == [ok |-> TRUE, fullSize |-> probe.fullSize, spacer |-> Spacer,
                       visibleCells |-> <<probe.cell>>]
           r == loadVisibleCell(probe.cell, 0, SelectionsOf(2), context)
       IN  probe' = [probe EXCEPT !.kind = "loaded",
                         !.requests = r.requests,
                         !.window = r.requests[1].window,
                         !.entry = r.entry]
    /\ UNCHANGED <<props, viewport, state, batches, last>>

SpecWindow == WindowInit /\ [][LoadCell]_vars

\* C9 as stated: for a level of non-zero size the window is never empty,
\* also for a slice of zero width or height and one on the far edge.
C9_WindowNonEmpty ==
    (probe.kind = "loaded" /\ probe.levelSize.width # 0 /\ probe.levelSize.height # 0
        /\ probe.window.defined)
    => /\ probe.window.x[2] > probe.window.x[1]
       /\ probe.window.y[2] > probe.window.y[1]

\* the index ranges of lines 196-204 for the probed cell
ProbedRange ==
    LET vb == probe.cell.viewportBounds
        cb == probe.cell.cellBounds
        fw == probe.fullSize.width
        fh == probe.fullSize.height
        lw == probe.levelSize.width
        lh == probe.levelSize.height
        xStart == windowStart(localCoord(vb.left, cb.left, fw), fw, lw)
        yStart == windowStart(localCoord(vb.top, cb.top, fh), fh, lh)
    IN  [x |-> <<xStart, windowEnd(xStart, localCoord(vb.right, cb.left, fw), fw, lw)>>,
         y |-> <<yStart, windowEnd(yStart, localCoord(vb.bottom, cb.top, fh), fh, lh)>>]

\* C10: coversWholeCell holds exactly when the computed window is the whole
\* level; then every fetch goes without a window and the entry's bounds are
\* the cell's bounds; otherwise every fetch carries the computed window.
C10_WholeCellMeansNoWindow ==
    probe.kind = "loaded" =>
        LET lw == probe.levelSize.width
            lh == probe.levelSize.height
            whole == lw = 0 \/ lh = 0
                     \/ (ProbedRange.x = <<0, lw>> /\ ProbedRange.y = <<0, lh>>)
        IN  /\ probe.entry.coversWholeCell = whole
            /\ whole =>
                 /\ \A i \in 1..Len(probe.requests) : probe.requests[i].window = NoWindow
                 /\ probe.entry.bounds = toDeckBounds(RatRect(probe.cell.cellBounds))
            /\ ~whole =>
                 \A i \in 1..Len(probe.requests) :
                     probe.requests[i].window =
                         [defined |-> TRUE, x |-> ProbedRange.x, y |-> ProbedRange.y]

\* a cell seen in full and loaded without a window, and one seen in part
C10_Witness ==
    /\ probe.kind = "loaded"
    /\ probe.levelSize = Dim(2, 2)
    /\ probe.cell.viewportBounds = probe.cell.cellBounds
    /\ probe.entry.coversWholeCell
    /\ probe.requests[1].window = NoWindow /\ Len(probe.requests) = 2

----------------------------------------------------------------------------
(* The fan-out of one refresh batch over its visible cells *)

\* the most visible cells a probed batch has
MaxCells == 4

\* props.concurrency: 0 stands for a budget that is not configured
Budgets == {0, 1, 2, 3, 10}

\* selections.length
ChannelCounts == {1, 2, 4}

\* concurrency: undefined
Unbounded == [defined |-> FALSE]

\* variant: the budget is not divided by the number of selections
getEffectiveConcurrencyUndivided(concurrency, selectionCount) ==
    IF concurrency = 0 THEN Unbounded
    ELSE [defined |-> TRUE, value |-> concurrency]

getEffectiveConcurrency(concurrency, selectionCount) ==
    IF concurrency = 0 THEN Unbounded
    ELSE IF selectionCount <= 0 THEN [defined |-> TRUE, value |-> concurrency]
    ELSE [defined |-> TRUE, value |-> Max(1, CeilDiv(concurrency, selectionCount))]

\* the state of a cell's load: not started, its fetches outstanding, returned
\* its entry, or failed
Waiting == [tag |-> "waiting", fetches |-> 0]
Loading(k) == [tag |-> "loading", fetches |-> k]
Loaded == [tag |-> "loaded", fetches |-> 0]
Failed(k) == [tag |-> "failed", fetches |-> k]

CellsThat(cells, tag) == {c \in DOMAIN cells : cells[c].tag = tag}

\* pMap(visibleCells, mapper, { concurrency }): the mappers it starts at once,
\* every one when concurrency is undefined; each calls getRaster once per
\* selection
pMapStart(count, limit, selectionCount) ==
    [c \in 1..count |->
        IF ~limit.defined \/ c <= limit.value THEN Loading(selectionCount) ELSE Waiting]

\* pMap after the mapper of cell c has returned: the next cell in order starts,
\* unless the batch has rejected
pMapNext(cells, c, rejected, selectionCount) ==
    LET waiting == CellsThat(cells, "waiting")
        done == [cells EXCEPT ![c] = Loaded]
    IN  IF rejected \/ waiting = {} THEN done
        ELSE LET next == CHOOSE w \in waiting : \A v \in waiting : w <= v
             IN  [done EXCEPT ![next] = Loading(selectionCount)]

\* refreshGridData of a context with `count` visible cells
LoadInit ==
    /\ Idle
    /\ \E budget \in Budgets, n \in ChannelCounts, count \in 1..MaxCells :
          probe = [kind |-> "load", concurrency |-> budget, selectionCount |-> n,
                   cells |-> pMapStart(count, getEffectiveConcurrency(budget, n), n),
                   rejected |-> FALSE]

\* a getRaster call of cell c returns its tile; with the last one the cell's
\* entry is returned and pMap goes on
FetchDone ==
    /\ probe.kind = "load"
    /\ \E c \in CellsThat(probe.cells, "loading") \cup CellsThat(probe.cells, "failed") :
          LET k == probe.cells[c].fetches
          IN  /\ k > 0
              /\ probe' =
                   [probe EXCEPT !.cells =
                       IF probe.cells[c].tag = "failed"
                       THEN [probe.cells EXCEPT ![c] = Failed(k - 1)]
                       ELSE IF k > 1
                       THEN [probe.cells EXCEPT ![c] = Loading(k - 1)]
                       ELSE pMapNext(probe.cells, c, probe.rejected, probe.selectionCount)]
    /\ UNCHANGED <<props, viewport, state, batches, last>>

\* a getRaster call of cell c fails: Promise.all rejects, the mapper rejects and
\* so does the batch; the fetches still outstanding are not aborted
FetchFail ==
    /\ probe.kind = "load"
    /\ \E c \in CellsThat(probe.cells, "loading") :
          probe' = [probe EXCEPT !.cells[c] = Failed(probe.cells[c].fetches - 1),
                                 !.rejected = TRUE]
    /\ UNCHANGED <<props, viewport, state, batches, last>>

LoadNext == FetchDone \/ FetchFail

SpecLoad == LoadInit /\ [][LoadNext]_vars

\* the raster fetches of the batch that are outstanding
Outstanding(cells) ==
    LET RECURSIVE Sum(_)
        Sum(S) == IF S = {} THEN 0
                  ELSE LET c == CHOOSE x \in S : TRUE
                       IN  cells[c].fetches + Sum(S \ {c})
    IN  Sum(DOMAIN cells)

\* max(1, ceil(C / n)) for C > 0 and n >= 1: the least k >= 1 with k * n >= C
ClaimedCellLimit(C, n) == CHOOSE k \in 1..C : k * n >= C /\ (k = 1 \/ (k - 1) * n < C)

\* C11: with a budget C > 0 and n >= 1 selections at most max(1, ceil(C / n))
\* cells are loading at any moment, and at most that many times n fetches are
\* outstanding; with no budget no cell waits for another.
C11_BoundedFanOut ==
    probe.kind = "load" =>
        IF probe.concurrency > 0
        THEN LET limit == ClaimedCellLimit(probe.concurrency, probe.selectionCount)
             IN  /\ Cardinality(CellsThat(probe.cells, "loading")) <= limit
                 /\ Outstanding(probe.cells) <= limit * probe.selectionCount
        ELSE CellsThat(probe.cells, "waiting") = {}

\* a budget of 10 and 4 selections: three cells are loading, some of their
\* fetches have returned, and the fourth cell waits
C11_Witness ==
    /\ probe.kind = "load" /\ probe.concurrency = 10 /\ probe.selectionCount = 4
    /\ Cardinality(CellsThat(probe.cells, "loading")) = 3
    /\ Cardinality(CellsThat(probe.cells, "waiting")) = 1
    /\ Outstanding(probe.cells) < 12

----------------------------------------------------------------------------
(* intersectBounds as a function of its inputs *)

\* world coordinates of the edges of the probed rectangles
EdgesX == {0, 1, 2, 3}
EdgesY == {0, 1, 2}

\* the rectangles with left <= right and top <= bottom, those of no area too
Rectangles ==
    {q \in [left : EdgesX, right : EdgesX, top : EdgesY, bottom : EdgesY] :
        q.left <= q.right /\ q.top <= q.bottom}

IntersectInit ==
    /\ Idle
    /\ \E a \in Rectangles, b \in Rectangles :
          probe = [kind |-> "rectangles", a |-> a, b |-> b,
                   ab |-> [ok |-> FALSE], ba |-> [ok |-> FALSE]]

\* intersectBounds(a, b) and intersectBounds(b, a)
Intersect ==
    /\ probe.kind = "rectangles"
    /\ probe' = [probe EXCEPT !.kind = "intersected",
                     !.ab = intersectBounds(probe.a, probe.b),
                     !.ba = intersectBounds(probe.b, probe.a)]
    /\ UNCHANGED <<props, viewport, state, batches, last>>

SpecIntersect == IntersectInit /\ [][Intersect]_vars

\* the rectangles share a point set of positive area
OverlapWithArea(a, b) ==
    \E x \in EdgesX, y \in EdgesY :
        /\ a.left <= x /\ x + 1 <= a.right /\ b.left <= x /\ x + 1 <= b.right
        /\ a.top <= y /\ y + 1 <= a.bottom /\ b.top <= y /\ y + 1 <= b.bottom

Inside(a, b) ==
    b.left <= a.left /\ a.right <= b.right /\ b.top <= a.top /\ a.bottom <= b.bottom

\* the intersection r is the rectangle a
Returns(r, a) ==
    r.ok /\ r.left = a.left /\ r.right = a.right /\ r.top = a.top /\ r.bottom = a.bottom

\* C12 as stated: intersect(a, b) = intersect(b, a); the result is
\* no-intersection exactly when a and b do not overlap with positive area; and
\* every rectangle a inside b is returned unchanged by intersect(a, b).
C12_IntersectLaws ==
    probe.kind = "intersected" =>
        /\ probe.ab = probe.ba
        /\ ~probe.ab.ok <=> ~OverlapWithArea(probe.a, probe.b)
        /\ Inside(probe.a, probe.b) => Returns(probe.ab, probe.a)

\* C12 amended: as C12, the third law for every rectangle a of positive area.
C12_IntersectLawsWithArea ==
    probe.kind = "intersected" =>
        /\ probe.ab = probe.ba
        /\ ~probe.ab.ok <=> ~OverlapWithArea(probe.a, probe.b)
        /\ (Inside(probe.a, probe.b)
              /\ probe.a.left < probe.a.right /\ probe.a.top < probe.a.bottom)
           => Returns(probe.ab, probe.a)

\* a rectangle strictly inside a larger one has come back unchanged
C12_Witness ==
    /\ probe.kind = "intersected"
    /\ probe.a = Rect(1, 2, 0, 1) /\ probe.b = Rect(0, 3, 0, 2)
    /\ Returns(probe.ab, probe.a) /\ Returns(probe.ba, probe.a)

----------------------------------------------------------------------------
(* Picking *)

\* gridCoord absent from a pick info
NoGridCoord == [defined |-> FALSE]

\* labels?.[index]: the label, or undefined
LabelAt(labels, index) ==
    IF index + 1 \in DOMAIN labels
    THEN [defined |-> TRUE, label |-> labels[index + 1]]
    ELSE [defined |-> FALSE]

\* variant: the spacer is left out of the cell pitch
getPickingInfoIgnoringSpacer(info, p, st) ==
    IF ~info.coordinate.defined THEN info
    ELSE IF st.fullWidth = 0 \/ st.fullHeight = 0 THEN info
    ELSE LET row    == FloorDiv(info.coordinate.y, st.fullHeight)
             column == FloorDiv(info.coordinate.x, st.fullWidth)
         IN  IF row < 0 \/ column < 0 \/ row >= p.rows \/ column >= p.columns THEN info
             ELSE [info EXCEPT
                      !.gridCoord = [defined |-> TRUE, row |-> row, column |-> column],
                      !.gridLabels = [row |-> LabelAt(p.rowLabels, row),
                                      column |-> LabelAt(p.columnLabels, column)]]

\* getPickingInfo, for a spacer >= 0 and integer world coordinates
getPickingInfo(info, p, st) ==
    IF ~info.coordinate.defined THEN info
    ELSE LET spacer == p.spacer
         IN  IF st.fullWidth = 0 \/ st.fullHeight = 0 THEN info
             ELSE LET row    == FloorDiv(info.coordinate.y, st.fullHeight + spacer)
                      column == FloorDiv(info.coordinate.x, st.fullWidth + spacer)
                  IN  IF row < 0 \/ column < 0 \/ row >= p.rows \/ column >= p.columns
                      THEN info
                      ELSE [info EXCEPT
                               !.gridCoord = [defined |-> TRUE, row |-> row, column |-> column],
                               !.gridLabels = [row |-> LabelAt(p.rowLabels, row),
                                               column |-> LabelAt(p.columnLabels, column)]]

\* a pick info as deck.gl hands it to the layer
PickInfo(coordinate) ==
    [coordinate |-> coordinate, gridCoord |-> NoGridCoord,
     gridLabels |-> [row |-> [defined |-> FALSE], column |-> [defined |-> FALSE]]]

\* state.fullWidth and state.fullHeight: both zero, or the base image's size
PickedFullSizes == {Dim(0, 0), Dim(4, 4), Dim(8, 4), Dim(100, 100)}
PickedSpacers == {0, 5, 10}
PickedCounts == {0, 1, 2}
PickedXs == {-1, 0, 8, 9, 13, 18, 109, 110, 130, 220}
PickedYs == {-1, 0, 5, 9, 110, 219, 220}

PickInfoInit ==
    /\ Idle
    /\ \E size \in PickedFullSizes, spacer \in PickedSpacers,
          rows \in PickedCounts, columns \in PickedCounts,
          coordinate \in {[defined |-> FALSE, x |-> 0, y |-> 0]}
                         \cup {[defined |-> TRUE, x |-> x, y |-> y] :
                                  x \in PickedXs, y \in PickedYs} :
          probe = [kind |-> "pick info",
                   props |-> [spacer |-> spacer, rows |-> rows, columns |-> columns,
                              rowLabels |-> <<"A", "B">>, columnLabels |-> <<>>],
                   state |-> [fullWidth |-> size.width, fullHeight |-> size.height],
                   info |-> PickInfo(coordinate),
                   result |-> PickInfo(coordinate)]

PickGridCell ==
    /\ probe.kind = "pick info"
    /\ probe' = [probe EXCEPT !.kind = "pick info returned",
                     !.result = getPickingInfo(probe.info, probe.props, probe.state)]
    /\ UNCHANGED <<props, viewport, state, batches, last>>

SpecPickInfo == PickInfoInit /\ [][PickGridCell]_vars

\* the cells (row, column) of the rows x columns grid whose pitch-sized slot,
\* from the cell's origin up to the next cell's, holds the point (x, y)
SlotsHolding(x, y, p, st) ==
    {rc \in (0..p.rows - 1) \X (0..p.columns - 1) :
        /\ rc[1] * (st.fullHeight + p.spacer) <= y
        /\ y < (rc[1] + 1) * (st.fullHeight + p.spacer)
        /\ rc[2] * (st.fullWidth + p.spacer) <= x
        /\ x < (rc[2] + 1) * (st.fullWidth + p.spacer)}

\* C13: a pick at (x, y) is annotated exactly when fullWidth and fullHeight
\* are non-zero and floor(y / (fullHeight + spacer)), floor(x / (fullWidth +
\* spacer)) are a row and a column of the grid; the annotation is that row and
\* column; otherwise the pick info comes back unchanged.
C13_PickAnnotation ==
    (probe.kind = "pick info returned" /\ probe.info.coordinate.defined) =>
        LET st == probe.state
            slots == IF st.fullWidth # 0 /\ st.fullHeight # 0
                     THEN SlotsHolding(probe.info.coordinate.x, probe.info.coordinate.y,
                                       probe.props, st)
                     ELSE {}
        IN  /\ probe.result.gridCoord.defined <=> slots # {}
            /\ \A rc \in slots :
                   /\ probe.result.gridCoord.row = rc[1]
                   /\ probe.result.gridCoord.column = rc[2]
            /\ slots = {} => probe.result = probe.info

\* the pick at (130, 5) in a 2 x 2 grid of cells of 100 with a spacer of 10
C13_Witness ==
    /\ probe.kind = "pick info returned"
    /\ probe.info.coordinate = [defined |-> TRUE, x |-> 130, y |-> 5]
    /\ probe.state = [fullWidth |-> 100, fullHeight |-> 100]
    /\ probe.props.spacer = 10 /\ probe.props.rows = 2 /\ probe.props.columns = 2
    /\ probe.result.gridCoord = [defined |-> TRUE, row |-> 0, column |-> 1]

----------------------------------------------------------------------------
(* buildGridContext as a function of the loaders and the viewport *)

ContextLoaderSets ==
    {UniformLoaders, MixedLoaders, HolesLoaders, EmptyLoaders, FlatLoaders, <<>>}

\* world coordinates of the viewport's edges; the cells of 4 x 4 lie at
\* 0..4 and 9..13 on either axis
ViewEdges == {-1, 0, 2, 4, 9, 11, 13, 20}

ContextViewports ==
    {NoViewport} \cup
    {View(Rect(l, r, t, b), Rat(1, 1), Rat(1, 1)) :
        l \in ViewEdges, r \in ViewEdges, t \in ViewEdges, b \in ViewEdges}

ContextInit ==
    /\ Idle
    /\ \E loaders \in ContextLoaderSets, v \in ContextViewports :
          /\ v.bounds.left <= v.bounds.right /\ v.bounds.top <= v.bounds.bottom
          /\ probe = [kind |-> "context", props |-> Props(loaders, SelectionsOf(1)),
                      viewport |-> v, context |-> NullContext]

BuildContext ==
    /\ probe.kind = "context"
    /\ probe' = [probe EXCEPT !.kind = "context built",
                     !.context = buildGridContext(probe.props, probe.viewport)]
    /\ UNCHANGED <<props, viewport, state, batches, last>>

SpecContext == ContextInit /\ [][BuildContext]_vars

\* a unit square of the world lies in both rectangles
SharesUnitSquare(a, b) ==
    \E x \in -1..20, y \in -1..20 :
        /\ a.left <= x /\ x + 1 <= a.right /\ b.left <= x /\ x + 1 <= b.right
        /\ a.top <= y /\ y + 1 <= a.bottom /\ b.top <= y /\ y + 1 <= b.bottom

\* C14: with a viewport the context holds exactly the cells that have a source
\* and whose bounds overlap the viewport's bounds with positive area, each with
\* that overlap, which lies in both, as its visible bounds; without a viewport
\* it holds every cell that has a source, with its full bounds.
C14_ContextCells ==
    (probe.kind = "context built" /\ probe.context.ok) =>
        LET loaders == probe.props.loaders
            v == probe.viewport
            cells == probe.context.visibleCells
            size == probe.context.fullSize
            boundsOf(loader) == getCellBounds(loader, size.width, size.height, probe.props.spacer)
            expected == {i \in 1..Len(loaders) :
                            /\ Len(loaders[i].sources) > 0
                            /\ v.present => SharesUnitSquare(boundsOf(loaders[i]), v.bounds)}
        IN  /\ Len(cells) = Cardinality(expected)
            /\ {cells[k].loader : k \in 1..Len(cells)} = {loaders[i] : i \in expected}
            /\ \A k \in 1..Len(cells) :
                   LET c == boundsOf(cells[k].loader)
                       vis == cells[k].viewportBounds
                   IN  /\ cells[k].cellBounds = c
                       /\ ~v.present => vis = c
                       /\ v.present =>
                            /\ Inside(vis, c) /\ Inside(vis, v.bounds)
                            /\ vis.left \in {c.left, v.bounds.left}
                            /\ vis.right \in {c.right, v.bounds.right}
                            /\ vis.top \in {c.top, v.bounds.top}
                            /\ vis.bottom \in {c.bottom, v.bounds.bottom}

\* one cell has no source, one only touches the viewport and one is cut by it
C14_Witness ==
    /\ probe.kind = "context built" /\ probe.context.ok
    /\ probe.props.loaders = HolesLoaders
    /\ probe.viewport.present /\ probe.viewport.bounds = Rect(-1, 9, 2, 11)
    /\ Len(probe.context.visibleCells) = 1
    /\ probe.context.visibleCells[1].loader.row = 1
    /\ probe.context.visibleCells[1].viewportBounds = Rect(0, 4, 9, 11)

----------------------------------------------------------------------------
(* The selector without a projection *)

\* the change flags of the update step that was taken last
Flags(loaderChanged, selectionChanged, viewportChanged) ==
    [loaderChanged |-> loaderChanged, selectionChanged |-> selectionChanged,
     viewportChanged |-> viewportChanged]

\* the layer, with the change flags of its updates kept
\* a two-level grid and no grid
FlaggedLoaderSets == {UniformLoaders, <<>>}
\* no viewport, the grid from far away and the first cell from near
FlaggedViewports == {NoViewport, ViewFar, ViewPart}

FlaggedInit == InitFrom(FlaggedLoaderSets, FlaggedViewports) /\ probe = Flags(FALSE, FALSE, FALSE)

FlaggedUpdate ==
    \E loaderChanged \in BOOLEAN, selectionChanged \in BOOLEAN, viewportChanged \in BOOLEAN :
        /\ UpdateWith(FlaggedLoaderSets, FlaggedViewports, loaderChanged, selectionChanged, viewportChanged)
        /\ probe' = Flags(loaderChanged, selectionChanged, viewportChanged)

FlaggedNext == FlaggedUpdate \/ Resolve \/ Reject

SpecFlagged == FlaggedInit /\ [][FlaggedNext]_vars

\* the update step that was taken reached the viewport branch of updateState
ViewportBranch(flags) ==
    flags.viewportChanged /\ ~flags.loaderChanged /\ ~flags.selectionChanged

\* C21 as stated: an update step with a changed viewport, taken while the
\* cell's screen projection is unavailable (no viewport, or fullWidth or
\* fullHeight zero), leaves resolutionLevel as it was, whatever the loaders.
C21_RetainsLevelWithoutProjection ==
    [][(last'.kind = "update" /\ probe'.viewportChanged
          /\ ~getCellScreenSize(viewport', state).ok)
          => state'.resolutionLevel = state.resolutionLevel]_vars

\* C21 amended: such a step leaves resolutionLevel as it was when every cell
\* has at least two pyramid levels; when the viewport branch runs over loaders
\* of which one has fewer (or over no loaders) it sets resolutionLevel to 0.
C21_RetainsLevelOfDeepPyramids ==
    [][(last'.kind = "update" /\ probe'.viewportChanged
          /\ ~getCellScreenSize(viewport', state).ok)
          => state'.resolutionLevel =
                IF ViewportBranch(probe') /\ getMaxValidLevel(props'.loaders) <= 0
                THEN 0 ELSE state.resolutionLevel]_vars

\* a viewport change took the viewport away from a two-level grid that was
\* shown at its coarse level, and the coarse level stayed
C21_Witness ==
    /\ last.kind = "update" /\ ViewportBranch(probe)
    /\ ~viewport.present /\ props.loaders = UniformLoaders
    /\ state.resolutionLevel = 1 /\ state.gridData # <<>>
    /\ \A k \in 1..Len(state.gridData) : state.gridData[k].sourceIndex = 1

----------------------------------------------------------------------------
(* The window of a visible cell *)

\* the probed cell is visible: its visible bounds lie in the cell's bounds and
\* have a positive area, and the level is not empty
ProbedVisible ==
    /\ probe.kind = "loaded"
    /\ probe.levelSize.width # 0 /\ probe.levelSize.height # 0
    /\ Inside(probe.cell.viewportBounds, probe.cell.cellBounds)
    /\ probe.cell.viewportBounds.left < probe.cell.viewportBounds.right
    /\ probe.cell.viewportBounds.top < probe.cell.viewportBounds.bottom

\* the window the probed cell was fetched with: the whole level when the
\* fetches carried none
FetchedWindow ==
    IF probe.window.defined THEN probe.window
    ELSE [defined |-> FALSE, x |-> <<0, probe.levelSize.width>>,
          y |-> <<0, probe.levelSize.height>>]

\* C22: for a visible cell and a level of non-zero size the window satisfies
\* 0 <= xStart < xEnd <= levelWidth and 0 <= yStart < yEnd <= levelHeight, is
\* rounded outward (xStart = floor(localLeft / pixelSizeX), xEnd >=
\* ceil(localRight / pixelSizeX), likewise for y), and the render bounds
\* contain the cell's visible bounds and lie in the cell's bounds.
C22_WindowRoundedOutward ==
    ProbedVisible =>
        LET vb == probe.cell.viewportBounds
            cb == probe.cell.cellBounds
            fw == probe.fullSize.width
            fh == probe.fullSize.height
            lw == probe.levelSize.width
            lh == probe.levelSize.height
            x  == FetchedWindow.x
            y  == FetchedWindow.y
            \* deck bounds are [left, bottom, right, top]
            rb == probe.entry.bounds
        IN  /\ 0 <= x[1] /\ x[1] < x[2] /\ x[2] <= lw
            /\ 0 <= y[1] /\ y[1] < y[2] /\ y[2] <= lh
            /\ x[1] * fw <= (vb.left - cb.left) * lw
            /\ (vb.left - cb.left) * lw < (x[1] + 1) * fw
            /\ x[2] * fw >= (vb.right - cb.left) * lw
            /\ y[1] * fh <= (vb.top - cb.top) * lh
            /\ (vb.top - cb.top) * lh < (y[1] + 1) * fh
            /\ y[2] * fh >= (vb.bottom - cb.top) * lh
            /\ RatLeq(Rat(cb.left, 1), rb[1]) /\ RatLeq(rb[1], Rat(vb.left, 1))
            /\ RatLeq(Rat(vb.right, 1), rb[3]) /\ RatLeq(rb[3], Rat(cb.right, 1))
            /\ RatLeq(Rat(cb.top, 1), rb[4]) /\ RatLeq(rb[4], Rat(vb.top, 1))
            /\ RatLeq(Rat(vb.bottom, 1), rb[2]) /\ RatLeq(rb[2], Rat(cb.bottom, 1))

\* a slice inside the second cell, between pixel edges of a level whose pixels
\* are 4/3 world units wide: columns 0 and 1 of 3 are fetched
C22_Witness ==
    /\ ProbedVisible
    /\ probe.cell.loader.col = 1
    /\ probe.levelSize = Dim(3, 2)
    /\ probe.cell.viewportBounds.left = probe.cell.cellBounds.left + 1
    /\ probe.cell.viewportBounds.right = probe.cell.cellBounds.left + 2
    /\ probe.cell.viewportBounds.top = probe.cell.cellBounds.top + 2
    /\ probe.window.defined
    /\ probe.window.x = <<0, 2>> /\ probe.window.y = <<1, 2>>
    /\ probe.entry.bounds[3] = Rat(3 * probe.cell.cellBounds.left + 8, 3)

----------------------------------------------------------------------------
(* Cells of different pyramid depth *)

\* two cells of one base size, the second without a downsampled level
UnevenLoaders ==
    <<Loader(0, 0, <<Dim(4, 4), Dim(2, 2)>>), Loader(0, 1, <<Dim(4, 4)>>)>>

UnevenLoaderSets == {UniformLoaders, UnevenLoaders}
\* the whole grid, from near and from far
UnevenViewports == {ViewAll, ViewFar}

\* the layer driven over a grid that loses the second level of one cell
UnevenInit == InitFrom(UnevenLoaderSets, UnevenViewports) /\ probe = NoProbe

UnevenUpdate == UpdateFrom(UnevenLoaderSets, UnevenViewports) /\ UNCHANGED probe

UnevenNext == UnevenUpdate \/ Resolve \/ Reject

SpecUneven == UnevenInit /\ [][UnevenNext]_vars

\* C23 as stated: when every fetch of a batch at the active level L has
\* succeeded, gridData holds an entry for every visible cell of the batch, read
\* from the cell's source min(L, sources.length - 1), also when L is deeper
\* than the pyramid of some cell.
C23_ClampedCellsCommitted ==
    [][(last'.kind = "settle" /\ last'.outcome # "rejected" /\ ~last'.stale)
          => \E b \in BagToSet(batches) :
                /\ batches' = Settled(batches, b)
                /\ b.level = state.resolutionLevel
                /\ Len(state'.gridData) = Len(b.context.visibleCells)
                /\ \A k \in 1..Len(b.context.visibleCells) :
                      LET loader == b.context.visibleCells[k].loader
                      IN  /\ state'.gridData[k].row = loader.row
                          /\ state'.gridData[k].col = loader.col
                          /\ state'.gridData[k].sourceIndex =
                                IF b.level < Len(loader.sources) THEN b.level
                                ELSE Len(loader.sources) - 1]_vars

----------------------------------------------------------------------------
(* The level after a viewport change *)

\* C24 as stated: after an update step in which the viewport changed, also
\* one in which the selections or the loaders changed with it, resolutionLevel
\* is the selector's result for the viewport and loaders of the step, and the
\* batch the step issued is of that level.
C24_LevelFollowsViewport ==
    [][(last'.kind = "update" /\ probe'.viewportChanged)
          => /\ state'.resolutionLevel =
                   pickResolutionLevel(props'.loaders, viewport', state')
             /\ buildGridContext(props', viewport').ok
                   => \E b \in BagToSet(batches') :
                         b.newest /\ b.level = state'.resolutionLevel]_vars

----------------------------------------------------------------------------
(* Picking against placement *)

\* the point (x, y) lies in bounds b, or in the spacer gap right of or below it
InCellOrItsGap(x, y, b, spacer) ==
    /\ b.left <= x /\ x < b.right + spacer
    /\ b.top <= y /\ y < b.bottom + spacer

\* C25: picking inverts placement: a pick at a point of the bounds that
\* getCellBounds gives the cell (r, c) of the grid, or of the spacer gap right
\* of or below them, is annotated with row r and column c.
C25_PickInvertsPlacement ==
    (probe.kind = "pick info returned" /\ probe.info.coordinate.defined) =>
        \A r \in 0..probe.props.rows - 1, c \in 0..probe.props.columns - 1 :
            LET b == getCellBounds(Loader(r, c, <<>>), probe.state.fullWidth,
                                   probe.state.fullHeight, probe.props.spacer)
                x == probe.info.coordinate.x
                y == probe.info.coordinate.y
            IN  (b.left < b.right /\ b.top < b.bottom
                    /\ InCellOrItsGap(x, y, b, probe.props.spacer))
                => probe.result.gridCoord = [defined |-> TRUE, row |-> r, column |-> c]

\* the pick at the origin (9, 9) of cell (1, 1) in a grid of cells of 4 x 4
\* with a spacer of 5
C25_Witness ==
    /\ probe.kind = "pick info returned"
    /\ probe.info.coordinate = [defined |-> TRUE, x |-> 9, y |-> 9]
    /\ probe.state = [fullWidth |-> 4, fullHeight |-> 4]
    /\ probe.props.spacer = 5 /\ probe.props.rows = 2 /\ probe.props.columns = 2
    /\ getCellBounds(Loader(1, 1, <<>>), 4, 4, 5) = Rect(9, 13, 9, 13)
    /\ probe.result.gridCoord = [defined |-> TRUE, row |-> 1, column |-> 1]

----------------------------------------------------------------------------
(* Axis navigation: the state of useAxisNavigation and of the store it
   writes.  Ids are sequences of characters; undefined is a record with
   defined = FALSE, the undefined id is the empty one. *)

AXIS_SCROLL_STEP_DELTA == 40

\* the canvas' bounding client rectangle
CanvasLeft == 2
CanvasTop == 1
CanvasWidth == 10
CanvasHeight == 10

NoPointer == [defined |-> FALSE]
Pointer(x, y) == [defined |-> TRUE, x |-> x, y |-> y]
NoId == <<>>
NoAxis == "none"
NoCall == [issued |-> FALSE]

\* String.prototype.toLowerCase over the keys and axis labels of the model
toLowerCase(s) ==
    CASE s = "Z" -> "z"
      [] s = "T" -> "t"
      [] s = "C" -> "c"
      [] s = "ArrowLeft" -> "arrowleft"
      [] s = "ArrowRight" -> "arrowright"
      [] s = "ArrowUp" -> "arrowup"
      [] s = "ArrowDown" -> "arrowdown"
      [] OTHER -> s

\* String.prototype.startsWith
startsWith(s, prefix) ==
    Len(prefix) <= Len(s) /\ SubSeq(s, 1, Len(prefix)) = prefix

\* the least member of a set of positions, 0 for the empty set: what find and
\* findIndex settle on
FirstOf(positions) ==
    IF positions = {} THEN 0
    ELSE CHOOSE i \in positions : \A j \in positions : i <= j

\* getAxisIndex: 0-based, -1 when no label is the axis
getAxisIndex(source, axis) ==
    FirstOf({i \in 1..Len(source.axis_labels) :
                toLowerCase(source.axis_labels[i]) = axis}) - 1

\* a source of sourceInfoAtom: shape is loader[0].shape (empty when there is
\* none), selection is defaults.selection
Source(id, axis_labels, shape, selection) ==
    [id |-> id, axis_labels |-> axis_labels, shape |-> shape, selection |-> selection]

\* the state of a layer in layerFamilyAtom, or none
NoLayer == [defined |-> FALSE]
LayerState(selections) == [defined |-> TRUE, selections |-> selections]

\* lines 60-84: the source of the layer picked under the pointer; target 0 is
\* undefined
pickTarget(sources, axis, pointerToUse, pickedLayerId) ==
    IF /\ pointerToUse.defined
       /\ pointerToUse.x >= 0 /\ pointerToUse.y >= 0
       /\ pointerToUse.x <= CanvasWidth /\ pointerToUse.y <= CanvasHeight
       /\ pickedLayerId # NoId
    THEN LET target == FirstOf({k \in 1..Len(sources) :
                                   \/ pickedLayerId = sources[k].id
                                   \/ startsWith(pickedLayerId, sources[k].id \o <<"_">>)
                                   \/ startsWith(pickedLayerId, sources[k].id \o <<"-">>)})
         IN  [target |-> target,
              axisIndex |-> IF target # 0 THEN getAxisIndex(sources[target], axis) ELSE -1]
    ELSE [target |-> 0, axisIndex |-> -1]

\* lines 86-91: fall back to the source that was adjusted last
lastTarget(sources, axis, found, lastTargetSourceId) ==
    IF (found.target = 0 \/ found.axisIndex = -1) /\ lastTargetSourceId # NoId
    THEN LET target == FirstOf({k \in 1..Len(sources) : sources[k].id = lastTargetSourceId})
         IN  [target |-> target,
              axisIndex |-> IF target # 0 THEN getAxisIndex(sources[target], axis)
                            ELSE found.axisIndex]
    ELSE found

\* lines 93-96: fall back to the first source
firstSource(sources, axis, found) ==
    IF found.target = 0
    THEN [target |-> 1, axisIndex |-> getAxisIndex(sources[1], axis)]
    ELSE found

\* variant: the index is clamped from below only
nextIndexForUnbounded(currentIndex, delta, maxIndex) == Max(currentIndex + delta, 0)

\* Math.min(Math.max(currentIndex + delta, 0), maxIndex)
nextIndexFor(currentIndex, delta, maxIndex) == Min(Max(currentIndex + delta, 0), maxIndex)

\* adjustAxis({ axis, delta, pointer }), pickedLayerId being what
\* deck.pickMultipleObjects finds under the pointer; for selections that have
\* an index for every axis of their source
adjustAxis(nav, axis, delta, pointer, pickedLayerId) ==
    IF delta = 0 \/ ~nav.deck THEN nav
    ELSE
    LET pointed == IF pointer.defined THEN [nav EXCEPT !.lastPointer = pointer] ELSE nav
        sources == nav.sources
    IN
    IF Len(sources) = 0 THEN pointed
    ELSE
    LET found == firstSource(sources, axis,
                     lastTarget(sources, axis,
                         pickTarget(sources, axis, pointed.lastPointer, pickedLayerId),
                         nav.lastTargetSourceId))
    IN
    IF found.axisIndex = -1 THEN pointed
    ELSE
    LET targetSource == sources[found.target]
        axisIndex == found.axisIndex
        targeted == [pointed EXCEPT !.lastTargetSourceId = targetSource.id]
        shape == targetSource.shape
    IN
    IF axisIndex >= Len(shape) THEN targeted
    ELSE IF shape[axisIndex + 1] - 1 <= 0 THEN targeted
    ELSE
    LET maxIndex == shape[axisIndex + 1] - 1
        layerState == nav.layers[found.target]
    IN
    IF ~layerState.defined THEN targeted
    ELSE IF Len(layerState.selections) = 0 THEN targeted
    ELSE
    LET selections == layerState.selections
        currentIndex == selections[1][axisIndex + 1]
        nextIndex == nextIndexFor(currentIndex, delta, maxIndex)
        nextSelections == [j \in 1..Len(selections) |->
                              [selections[j] EXCEPT ![axisIndex + 1] = nextIndex]]
    IN
    IF nextIndex = currentIndex THEN targeted
    ELSE [targeted EXCEPT
             !.layers = [nav.layers EXCEPT ![found.target] = LayerState(nextSelections)],
             !.sources = [k \in 1..Len(sources) |->
                             IF sources[k].id # targetSource.id THEN sources[k]
                             ELSE [sources[k] EXCEPT !.selection = nextSelections[1]]]]

\* the refs and state of the hook, the deck instance and the store
Nav(deck, sources, layers) ==
    [deck |-> deck, sources |-> sources, layers |-> layers,
     lastPointer |-> NoPointer, lastTargetSourceId |-> NoId,
     axisScrollKey |-> NoAxis, axisScrollAccumulator |-> 0]

\* variant: the accumulator outlives a change of the axis key
updateAxisScrollKeyKeepingAccumulator(nav, nextKey) ==
    [nav EXCEPT !.axisScrollKey = nextKey]

\* updateAxisScrollKey, with the render that a changed axisScrollKey brings
\* and the effect of lines 238-242 that the render runs: React renders and
\* runs the effects of a key or blur event before the next event is handled,
\* so the ref and the state are one field
updateAxisScrollKey(nav, nextKey) ==
    IF nextKey = nav.axisScrollKey THEN nav
    ELSE [nav EXCEPT !.axisScrollKey = nextKey, !.axisScrollAccumulator = 0]

Call(axis, delta, pointer) ==
    [issued |-> TRUE, axis |-> axis, delta |-> delta, pointer |-> pointer]

\* what a handler did: the hook and store after it, and the adjustAxis call it
\* made
Handled(nav, call) == [nav |-> nav, call |-> call]

handleKeyDown(nav, key, pickedLayerId) ==
    LET lower == toLowerCase(key)
    IN  IF lower = "z" \/ lower = "t"
        THEN Handled(updateAxisScrollKey(nav, lower), NoCall)
        ELSE IF key \in {"ArrowUp", "ArrowDown", "ArrowLeft", "ArrowRight"}
        THEN LET axis == nav.axisScrollKey
             IN  IF axis = NoAxis THEN Handled(nav, NoCall)
                 ELSE IF key = "ArrowUp" \/ key = "ArrowDown" THEN Handled(nav, NoCall)
                 ELSE LET delta == IF key = "ArrowLeft" THEN -1 ELSE 1
                      IN  Handled(adjustAxis(nav, axis, delta, NoPointer, pickedLayerId),
                                  Call(axis, delta, NoPointer))
        ELSE Handled(nav, NoCall)

\* variant: the keyup of either axis key clears the active one
handleKeyUpOfEither(nav, key) ==
    LET lower == toLowerCase(key)
    IN  IF lower = "z" \/ lower = "t"
        THEN Handled(updateAxisScrollKey(nav, NoAxis), NoCall)
        ELSE Handled(nav, NoCall)

handleKeyUp(nav, key) ==
    LET lower == toLowerCase(key)
    IN  IF (lower = "z" \/ lower = "t") /\ nav.axisScrollKey = lower
        THEN Handled(updateAxisScrollKey(nav, NoAxis), NoCall)
        ELSE Handled(nav, NoCall)

handleBlur(nav) == Handled(updateAxisScrollKey(nav, NoAxis), NoCall)

\* Math.trunc(a / b) for b > 0
truncDiv(a, b) == IF a >= 0 THEN a \div b ELSE -((-a) \div b)

\* what handleWheel did: as Handled, and whether the event passed the guards
\* of lines 246-261, and the steps it took off the accumulator
Wheeled(nav, call, passed, steps) ==
    [nav |-> nav, call |-> call, passed |-> passed, steps |-> steps]

handleWheel(nav, clientX, clientY, deltaY, pickedLayerId) ==
    IF nav.axisScrollKey = NoAxis \/ ~nav.deck THEN Wheeled(nav, NoCall, FALSE, 0)
    ELSE
    LET x == clientX - CanvasLeft
        y == clientY - CanvasTop
    IN
    IF x < 0 \/ y < 0 \/ x > CanvasWidth \/ y > CanvasHeight
    THEN Wheeled(nav, NoCall, FALSE, 0)
    ELSE
    LET accumulated == nav.axisScrollAccumulator + deltaY
        steps == truncDiv(accumulated, AXIS_SCROLL_STEP_DELTA)
    IN
    IF steps = 0
    THEN Wheeled([nav EXCEPT !.axisScrollAccumulator = accumulated], NoCall, TRUE, 0)
    ELSE
    LET taken == [nav EXCEPT !.axisScrollAccumulator =
                                 accumulated - steps * AXIS_SCROLL_STEP_DELTA]
    IN  Wheeled(adjustAxis(taken, nav.axisScrollKey, -steps, Pointer(x, y), pickedLayerId),
                Call(nav.axisScrollKey, -steps, Pointer(x, y)), TRUE, steps)

\* history: the event handled last, the call it made, and the wheel movement
\* handled since the axis key last changed that has not been emitted as steps
NavProbe(nav, event, call, owed) ==
    [kind |-> "nav", nav |-> nav, event |-> event, call |-> call, owed |-> owed]

Owed(nav, before, passed, deltaY, steps) ==
    IF nav.axisScrollKey # before.nav.axisScrollKey THEN 0
    ELSE IF passed THEN before.owed + deltaY - steps * AXIS_SCROLL_STEP_DELTA
    ELSE before.owed

NavInitFrom(SourceChoices) ==
    /\ Idle
    /\ \E deck \in BOOLEAN, store \in SourceChoices :
          probe = NavProbe(Nav(deck, store.sources, store.layers),
                           [type |-> "mount"], NoCall, 0)

KeyDownWith(KeyChoices, PickChoices) ==
    /\ probe.kind = "nav"
    /\ \E key \in KeyChoices, pickedLayerId \in PickChoices :
          LET r == handleKeyDown(probe.nav, key, pickedLayerId)
          IN  probe' = NavProbe(r.nav, [type |-> "keydown", key |-> key], r.call,
                                Owed(r.nav, probe, FALSE, 0, 0))
    /\ UNCHANGED <<props, viewport, state, batches, last>>

KeyUpWith(KeyChoices) ==
    /\ probe.kind = "nav"
    /\ \E key \in KeyChoices :
          LET r == handleKeyUp(probe.nav, key)
          IN  probe' = NavProbe(r.nav, [type |-> "keyup", key |-> key], r.call,
                                Owed(r.nav, probe, FALSE, 0, 0))
    /\ UNCHANGED <<props, viewport, state, batches, last>>

Blur ==
    /\ probe.kind = "nav"
    /\ LET r == handleBlur(probe.nav)
       IN  probe' = NavProbe(r.nav, [type |-> "blur"], r.call,
                             Owed(r.nav, probe, FALSE, 0, 0))
    /\ UNCHANGED <<props, viewport, state, batches, last>>

\* a wheel event on the canvas (the listener of lines 280-296 is attached when
\* there is a canvas)
WheelWith(ClientChoices, DeltaChoices, PickChoices) ==
    /\ probe.kind = "nav" /\ probe.nav.deck
    /\ \E client \in ClientChoices, deltaY \in DeltaChoices, pickedLayerId \in PickChoices :
          LET r == handleWheel(probe.nav, client[1], client[2], deltaY, pickedLayerId)
          IN  probe' = NavProbe(r.nav,
                                [type |-> "wheel", clientX |-> client[1],
                                 clientY |-> client[2], deltaY |-> deltaY,
                                 passed |-> r.passed, steps |-> r.steps],
                                r.call, Owed(r.nav, probe, r.passed, deltaY, r.steps))
    /\ UNCHANGED <<props, viewport, state, batches, last>>

IdA == <<"a">>
IdB == <<"b">>

\* a store: the sources of sourceInfoAtom and the layer state of each
Store(sources, layers) == [sources |-> sources, layers |-> layers]

\* an image with t, c and z shown in two channels, and one with c and Z
StoreTwo ==
    Store(<<Source(IdA, <<"t", "c", "z">>, <<2, 2, 3>>, <<0, 0, 1>>),
            Source(IdB, <<"c", "Z">>, <<2, 4>>, <<0, 3>>)>>,
          <<LayerState(<<<<0, 0, 1>>, <<0, 1, 1>>>>), LayerState(<<<<0, 3>>>>)>>)

\* an image with a single z plane, and one whose layer is not there yet
StoreFlat ==
    Store(<<Source(IdA, <<"z", "c">>, <<1, 2>>, <<0, 0>>),
            Source(IdB, <<"t", "z">>, <<3, 2>>, <<1, 0>>)>>,
          <<LayerState(<<<<0, 0>>>>), NoLayer>>)

\* an image without a loader shape, and one without channel selections
StoreBare ==
    Store(<<Source(IdA, <<"z">>, <<>>, <<0>>),
            Source(IdB, <<"t", "z">>, <<3, 2>>, <<1, 0>>)>>,
          <<LayerState(<<<<0>>>>), LayerState(<<>>)>>)

StoreNone == Store(<<>>, <<>>)

AxisStores == {StoreTwo, StoreFlat, StoreBare, StoreNone}
AxisKeys == {"z", "t", "ArrowLeft", "ArrowRight"}
\* the layer under the pointer: none, the layer of a, a sublayer of b
AxisPicks == {NoId, IdA, <<"b", "_", "0">>}
\* a point on the canvas and one left of it
AxisClients == {<<7, 6>>, <<1, 6>>}
\* wheel movements of two steps back and one step forth
AxisDeltas == {-80, 40}

AxisInit == NavInitFrom(AxisStores)
AxisKeyDown == KeyDownWith(AxisKeys, AxisPicks)
AxisKeyUp == KeyUpWith({"z", "t"})
AxisWheel == WheelWith(AxisClients, AxisDeltas, AxisPicks)

AxisNext == AxisKeyDown \/ AxisKeyUp \/ Blur \/ AxisWheel

SpecAxis == AxisInit /\ [][AxisNext]_vars

\* the z and t indices of every channel selection of every layer are indices
\* into the base loader's shape
AxisIndicesInRange(nav) ==
    \A k \in 1..Len(nav.sources), axis \in {"z", "t"} :
        LET i == getAxisIndex(nav.sources[k], axis)
        IN  (nav.layers[k].defined /\ i >= 0 /\ i < Len(nav.sources[k].shape))
            => \A j \in 1..Len(nav.layers[k].selections) :
                  /\ 0 <= nav.layers[k].selections[j][i + 1]
                  /\ nav.layers[k].selections[j][i + 1] <= nav.sources[k].shape[i + 1] - 1

\* C26: through every sequence of axis adjustments the index on the adjusted
\* axis stays within [0, shape[axis] - 1] of the target's base loader; an
\* adjustment that changes the store sets one index on that axis in every
\* channel selection of the target layer (and as the source's default) and
\* changes no other index; an adjustment whose clamped index is the current one
\* changes neither the layer state nor the source info.
C26_AdjustmentsStayInRange ==
    [][(probe'.kind = "nav" /\ probe'.call.issued) =>
        LET before == probe.nav
            after  == probe'.nav
            axis   == probe'.call.axis
            delta  == probe'.call.delta
            \* the source that the adjustment settled on
            k == FirstOf({t \in 1..Len(after.sources) :
                             after.sources[t].id = after.lastTargetSourceId})
            i == IF k = 0 THEN -1 ELSE getAxisIndex(before.sources[k], axis)
            changed == after.layers # before.layers \/ after.sources # before.sources
        IN  /\ AxisIndicesInRange(after)
            /\ changed =>
                 /\ k # 0 /\ i >= 0
                 /\ LET n == after.layers[k].selections[1][i + 1]
                    IN  /\ after.layers =
                              [before.layers EXCEPT ![k] =
                                  LayerState([j \in 1..Len(before.layers[k].selections) |->
                                      [before.layers[k].selections[j] EXCEPT ![i + 1] = n]])]
                        /\ after.sources =
                              [before.sources EXCEPT ![k] =
                                  [before.sources[k] EXCEPT
                                      !.selection = after.layers[k].selections[1]]]
                        /\ 0 <= n /\ n <= before.sources[k].shape[i + 1] - 1
                        /\ \/ n = before.layers[k].selections[1][i + 1] + delta
                           \/ n = 0 /\ before.layers[k].selections[1][i + 1] + delta < 0
                           \/ n = before.sources[k].shape[i + 1] - 1
                                 /\ before.layers[k].selections[1][i + 1] + delta > n
            /\ (/\ k # 0 /\ i >= 0 /\ i < Len(before.sources[k].shape)
                /\ before.layers[k].defined /\ Len(before.layers[k].selections) > 0
                /\ LET current == before.layers[k].selections[1][i + 1]
                       sum == current + delta
                       top == before.sources[k].shape[i + 1] - 1
                   IN  \/ sum = current
                       \/ sum < 0 /\ current = 0
                       \/ sum > top /\ current = top)
               => ~changed]_vars

\* two wheel steps over the layer of image a moved z from 1 to the last plane,
\* 2, in both channels and in the source's default selection
C26_Witness ==
    /\ probe.kind = "nav" /\ probe.call.issued
    /\ probe.call.axis = "z" /\ probe.call.delta = 2
    /\ probe.nav.lastTargetSourceId = IdA
    /\ probe.nav.layers[1] = LayerState(<<<<0, 0, 2>>, <<0, 1, 2>>>>)
    /\ probe.nav.sources[1].selection = <<0, 0, 2>>
    /\ probe.nav.layers[2] = LayerState(<<<<0, 3>>>>)

----------------------------------------------------------------------------
(* Axis navigation: the keys and the wheel *)

\* one image with t and z, shown in one channel
StoreOne ==
    Store(<<Source(IdA, <<"t", "z">>, <<2, 3>>, <<0, 1>>)>>, <<LayerState(<<<<0, 1>>>>)>>)

Keys == {"z", "Z", "t", "ArrowLeft", "ArrowRight", "ArrowUp", "ArrowDown", "a"}
ReleasedKeys == {"z", "Z", "t", "a"}
KeysPicks == {NoId, IdA}
\* a point on the canvas and one left of it
KeysClients == {<<7, 6>>, <<1, 6>>}
KeysDeltas == {-100, -30, 30, 50}

KeysInit == NavInitFrom({StoreOne})
KeysKeyDown == KeyDownWith(Keys, KeysPicks)
KeysKeyUp == KeyUpWith(ReleasedKeys)
KeysWheel == WheelWith(KeysClients, KeysDeltas, KeysPicks)

KeysNext == KeysKeyDown \/ KeysKeyUp \/ Blur \/ KeysWheel

SpecKeys == KeysInit /\ [][KeysNext]_vars

\* the axis that a key names, NoAxis for any other key
AxisOfKey(key) ==
    IF key \in {"z", "Z"} THEN "z" ELSE IF key \in {"t", "T"} THEN "t" ELSE NoAxis

\* C27: the active axis key becomes z or t on the keydown of that key (the
\* latest pressed wins) and is cleared only by the keyup of the active key or
\* by a window blur; the keyup of the other axis key leaves it; ArrowLeft and
\* ArrowRight issue an adjustment of -1 and +1 on the active axis only while an
\* axis key is active, ArrowUp and ArrowDown never issue one.
C27_AxisKeyMachine ==
    [][(probe'.kind = "nav" /\ probe'.event.type \in {"keydown", "keyup", "blur"}) =>
        LET ev   == probe'.event
            was  == probe.nav.axisScrollKey
            is   == probe'.nav.axisScrollKey
            down == ev.type = "keydown"
            up   == ev.type = "keyup"
        IN  /\ (down /\ AxisOfKey(ev.key) # NoAxis) => is = AxisOfKey(ev.key)
            /\ (down /\ AxisOfKey(ev.key) = NoAxis) => is = was
            /\ up => is = IF was # NoAxis /\ AxisOfKey(ev.key) = was THEN NoAxis ELSE was
            /\ ev.type = "blur" => is = NoAxis
            /\ (down /\ ev.key = "ArrowLeft" /\ was # NoAxis)
                  => probe'.call = Call(was, -1, NoPointer)
            /\ (down /\ ev.key = "ArrowRight" /\ was # NoAxis)
                  => probe'.call = Call(was, 1, NoPointer)
            /\ ~(down /\ ev.key \in {"ArrowLeft", "ArrowRight"} /\ was # NoAxis)
                  => /\ probe'.call = NoCall
                     /\ probe'.nav.layers = probe.nav.layers
                     /\ probe'.nav.sources = probe.nav.sources]_vars

\* with t the active axis, ArrowRight moved t from 0 to 1
C27_Witness ==
    /\ probe.kind = "nav"
    /\ probe.event = [type |-> "keydown", key |-> "ArrowRight"]
    /\ probe.nav.axisScrollKey = "t"
    /\ probe.call = Call("t", 1, NoPointer)
    /\ probe.nav.layers[1] = LayerState(<<<<1, 1>>>>)

\* C28: while an axis key is active each wheel event on the canvas adds its
\* deltaY to the accumulator and takes steps = trunc(accumulator / 40) off it,
\* issuing an adjustment of -steps (none when steps = 0); afterwards
\* |accumulator| < 40, and the accumulator is the wheel movement handled since
\* the axis key last changed less 40 for every step emitted since; a change of
\* the axis key sets the accumulator to 0; a wheel event without an active
\* axis key or off the canvas changes nothing.
C28_WheelAccumulation ==
    [][probe'.kind = "nav" =>
        LET ev   == probe'.event
            was  == probe.nav.axisScrollKey
            acc  == probe'.nav.axisScrollAccumulator
        IN  /\ -AXIS_SCROLL_STEP_DELTA < acc /\ acc < AXIS_SCROLL_STEP_DELTA
            /\ acc = probe'.owed
            /\ probe'.nav.axisScrollKey # was => acc = 0
            /\ ev.type = "wheel" =>
                 LET onCanvas == /\ CanvasLeft <= ev.clientX
                                 /\ ev.clientX <= CanvasLeft + CanvasWidth
                                 /\ CanvasTop <= ev.clientY
                                 /\ ev.clientY <= CanvasTop + CanvasHeight
                     sum == probe.nav.axisScrollAccumulator + ev.deltaY
                     rest == sum - ev.steps * AXIS_SCROLL_STEP_DELTA
                 IN  /\ ev.passed <=> (was # NoAxis /\ onCanvas)
                     /\ ~ev.passed => probe'.nav = probe.nav /\ probe'.call = NoCall
                     /\ ev.passed =>
                          /\ acc = rest
                          /\ sum >= 0 => (ev.steps >= 0 /\ rest >= 0)
                          /\ sum <= 0 => (ev.steps <= 0 /\ rest <= 0)
                          /\ probe'.call =
                                IF ev.steps = 0 THEN NoCall
                                ELSE Call(was, -ev.steps,
                                          Pointer(ev.clientX - CanvasLeft,
                                                  ev.clientY - CanvasTop))]_vars

\* with z active, a wheel movement of -100 after one of 30 took one step off
\* the accumulator, left -30 on it and moved z from 1 to 2
C28_Witness ==
    /\ probe.kind = "nav" /\ probe.nav.axisScrollKey = "z"
    /\ probe.event.type = "wheel" /\ probe.event.deltaY = -100
    /\ probe.event.passed /\ probe.event.steps = -1
    /\ probe.nav.axisScrollAccumulator = -30
    /\ probe.call.issued /\ probe.call.delta = 1
    /\ probe.nav.layers[1] = LayerState(<<<<0, 2>>>>)

----------------------------------------------------------------------------
(* The viewer: committing deck's view state to the store.  Zooms and target
   coordinates are whole thousandths. *)

\* 1e-3, in thousandths
VIEWSTATE_EPSILON == 1

NoViewState == [defined |-> FALSE]
NoWidth == 0
ViewStateOf(zoom, x, width) ==
    [defined |-> TRUE, zoom |-> zoom, target |-> <<x, 0>>, width |-> width]

Abs(n) == IF n < 0 THEN -n ELSE n

\* mapDeckToViewState(next, prev), for a next that has a zoom and a target:
\* the width is next's when it has one, else prev's
mapDeckToViewState(next, prev) ==
    [defined |-> TRUE, zoom |-> next.zoom, target |-> next.target,
     width |-> IF next.width # NoWidth THEN next.width
               ELSE IF prev.defined THEN prev.width ELSE NoWidth]

viewStatesApproximatelyEqual(a, b) ==
    IF ~a.defined \/ ~b.defined THEN a.defined = b.defined
    ELSE /\ \A i \in 1..Min(Len(a.target), Len(b.target)) :
               Abs(a.target[i] - b.target[i]) <= VIEWSTATE_EPSILON
         /\ Abs(a.zoom - b.zoom) <= VIEWSTATE_EPSILON

\* the component's refs and state, the store's view state, the animation
\* frames the browser holds, and whether the effect of lines 160-173 is due
\* (the store's view state has changed since it ran); as they are once the
\* component has mounted over an empty store and its effects have run
ViewerState ==
    [mounted |-> TRUE, viewState |-> NoViewState, localViewState |-> NoViewState,
     pendingViewState |-> NoViewState, pendingFrame |-> 0, isActive |-> FALSE,
     frames |-> {}, syncDue |-> FALSE]

\* what a callback did: the viewer after it, and whether it called
\* setViewState
Flushed(vw, committed) == [vw |-> vw, committed |-> committed]

\* window.requestAnimationFrame: a handle that no frame in wait has
requestAnimationFrame(frames) ==
    IF frames = {} THEN 1
    ELSE 1 + (CHOOSE i \in frames : \A j \in frames : j <= i)

\* pendingFrameRef 0 is undefined
cancelPendingFrame(vw) ==
    IF vw.pendingFrame # 0
    THEN [vw EXCEPT !.frames = @ \ {vw.pendingFrame}, !.pendingFrame = 0]
    ELSE vw

flushPendingViewState(vw) ==
    LET cancelled == cancelPendingFrame(vw)
        next == cancelled.pendingViewState
        cleared == [cancelled EXCEPT !.pendingViewState = NoViewState]
    IN  IF next.defined
        THEN Flushed([cleared EXCEPT
                         !.viewState = mapDeckToViewState(next, cleared.viewState),
                         !.syncDue = TRUE], TRUE)
        ELSE Flushed(cleared, FALSE)

scheduleViewStateCommit(vw, next, immediate) ==
    LET pending == [vw EXCEPT !.pendingViewState = next]
    IN  IF immediate THEN flushPendingViewState(pending)
        ELSE IF pending.pendingFrame # 0 THEN Flushed(pending, FALSE)
        ELSE LET id == requestAnimationFrame(pending.frames)
             IN  Flushed([pending EXCEPT !.pendingFrame = id, !.frames = @ \cup {id}],
                         FALSE)

\* the callback given to requestAnimationFrame (lines 108-111)
frameCallback(vw, id) ==
    flushPendingViewState([vw EXCEPT !.frames = @ \ {id}, !.pendingFrame = 0])

onViewStateChange(vw, next, inTransition) ==
    scheduleViewStateCommit(
        [vw EXCEPT !.localViewState =
            IF viewStatesApproximatelyEqual(@, next) THEN @ ELSE next],
        next, ~inTransition)

onInteractionStateChange(vw, isActive) ==
    LET r == IF vw.isActive /\ ~isActive THEN flushPendingViewState(vw)
             ELSE Flushed(vw, FALSE)
    IN  Flushed([r.vw EXCEPT !.isActive = isActive], r.committed)

\* the effect of lines 160-173
syncViewState(vw) ==
    IF ~vw.viewState.defined
    THEN [cancelPendingFrame(vw) EXCEPT !.pendingViewState = NoViewState,
                                        !.localViewState = NoViewState,
                                        !.syncDue = FALSE]
    ELSE [vw EXCEPT
             !.pendingViewState =
                 IF viewStatesApproximatelyEqual(@, vw.viewState) THEN @ ELSE NoViewState,
             !.localViewState =
                 IF viewStatesApproximatelyEqual(@, vw.viewState) THEN @ ELSE vw.viewState,
             !.syncDue = FALSE]

\* variant: the cleanup leaves the frame in wait
unmountLeavingFrame(vw) ==
    [vw EXCEPT !.pendingViewState = NoViewState, !.mounted = FALSE]

\* the cleanup of lines 116-122
unmount(vw) ==
    [cancelPendingFrame(vw) EXCEPT !.pendingViewState = NoViewState, !.mounted = FALSE]

\* the view state that resetViewState fits to the first layer (lines 124-141)
FittedViewState == ViewStateOf(0, 0, 800)

\* the view states deck reports: zooms that differ by the epsilon and by
\* more, and another target
ReportedViewStates ==
    {ViewStateOf(0, 0, NoWidth), ViewStateOf(1, 0, NoWidth), ViewStateOf(5, 0, NoWidth),
     ViewStateOf(0, 10, 640)}

\* history: the step taken last, whether it called setViewState, and the view
\* state deck reported last
ViewerProbe(vw, step, committed, reported) ==
    [kind |-> "viewer", vw |-> vw, step |-> step, committed |-> committed,
     reported |-> reported]

ViewerInit ==
    /\ Idle
    /\ probe = ViewerProbe(ViewerState, "mount", FALSE, NoViewState)

\* the effect of lines 143-158 finds no view state in the store and fits one
FitView ==
    /\ probe.kind = "viewer" /\ probe.vw.mounted /\ ~probe.vw.viewState.defined
    /\ probe' = ViewerProbe([probe.vw EXCEPT !.viewState = FittedViewState,
                                             !.syncDue = TRUE],
                            "fit", TRUE, probe.reported)
    /\ UNCHANGED <<props, viewport, state, batches, last>>

ViewStateChange ==
    /\ probe.kind = "viewer" /\ probe.vw.mounted
    /\ \E next \in ReportedViewStates, inTransition \in BOOLEAN :
          LET r == onViewStateChange(probe.vw, next, inTransition)
          IN  probe' = ViewerProbe(r.vw, IF inTransition THEN "transition" ELSE "change",
                                   r.committed, next)
    /\ UNCHANGED <<props, viewport, state, batches, last>>

InteractionStateChange ==
    /\ probe.kind = "viewer" /\ probe.vw.mounted
    /\ \E isActive \in BOOLEAN :
          LET r == onInteractionStateChange(probe.vw, isActive)
          IN  probe' = ViewerProbe(r.vw,
                                   IF probe.vw.isActive /\ ~isActive THEN "interaction end"
                                   ELSE "interaction",
                                   r.committed, probe.reported)
    /\ UNCHANGED <<props, viewport, state, batches, last>>

\* the browser runs an animation frame that is in wait
AnimationFrame ==
    /\ probe.kind = "viewer"
    /\ \E id \in probe.vw.frames :
          LET r == frameCallback(probe.vw, id)
          IN  probe' = ViewerProbe(r.vw, "frame", r.committed, probe.reported)
    /\ UNCHANGED <<props, viewport, state, batches, last>>

\* React runs the effect of lines 160-173 after a render with a new view state
SyncEffect ==
    /\ probe.kind = "viewer" /\ probe.vw.mounted /\ probe.vw.syncDue
    /\ probe' = ViewerProbe(syncViewState(probe.vw), "sync", FALSE, probe.reported)
    /\ UNCHANGED <<props, viewport, state, batches, last>>

Unmount ==
    /\ probe.kind = "viewer" /\ probe.vw.mounted
    /\ probe' = ViewerProbe(unmount(probe.vw), "unmount", FALSE, probe.reported)
    /\ UNCHANGED <<props, viewport, state, batches, last>>

ViewerNext ==
    \/ FitView \/ ViewStateChange \/ InteractionStateChange
    \/ AnimationFrame \/ SyncEffect \/ Unmount

SpecViewer == ViewerInit /\ [][ViewerNext]_vars

\* C29 as stated: once the events have stopped and the frames and effects in
\* wait have run, the store's view state has the zoom and target that deck
\* reported last.
C29_FinalViewStateKept ==
    (/\ probe.kind = "viewer" /\ probe.vw.mounted /\ probe.reported.defined
     /\ probe.vw.frames = {} /\ ~probe.vw.syncDue)
    => /\ probe.vw.viewState.defined
       /\ probe.vw.viewState.zoom = probe.reported.zoom
       /\ probe.vw.viewState.target = probe.reported.target

\* C30: at most one animation frame is in wait; every commit writes the view
\* state scheduled last; a commit of an event outside a transition and a flush
\* at the end of an interaction leave no frame in wait and no pending view
\* state; no commit occurs after the unmount.
C30_CommitsCoalesced ==
    [][probe'.kind = "viewer" =>
        LET vw == probe'.vw
        IN  /\ Cardinality(vw.frames) <= 1
            /\ vw.frames = IF vw.pendingFrame = 0 THEN {} ELSE {vw.pendingFrame}
            /\ (probe'.committed /\ probe'.step # "fit")
                  => /\ probe'.reported.defined
                     /\ vw.viewState.zoom = probe'.reported.zoom
                     /\ vw.viewState.target = probe'.reported.target
            /\ probe'.step = "change" => probe'.committed
            /\ probe'.step \in {"change", "interaction end"}
                  => vw.frames = {} /\ ~vw.pendingViewState.defined
            /\ (probe'.step = "frame" /\ probe'.committed)
                  => probe.vw.pendingViewState = probe.reported
            /\ ~probe.vw.mounted => (~probe'.committed /\ vw.viewState = probe.vw.viewState)
            /\ ~vw.mounted => (vw.frames = {} /\ ~vw.pendingViewState.defined)]_vars

\* a frame callback committed the view state of the second of two transition
\* events that had shared its frame
C30_Witness ==
    /\ probe.kind = "viewer" /\ probe.step = "frame" /\ probe.committed
    /\ probe.reported = ViewStateOf(5, 0, NoWidth)
    /\ probe.vw.viewState = ViewStateOf(5, 0, 800)
    /\ probe.vw.localViewState = ViewStateOf(5, 0, NoWidth)
    /\ probe.vw.frames = {} /\ ~probe.vw.pendingViewState.defined

====
